---- MODULE Spec2Model ----
(***************************************************************************)
(* A model of the apivalidation traversal engine: the validation walk      *)
(* (Validate / validateCore with the ozzo ValidateStruct loop it drives),  *)
(* the embedding expander, the normalization walk, the decode-normalize-   *)
(* validate entry points and the schema customizer (schemaDoc).            *)
(*                                                                         *)
(* Go values are modelled structurally and always travel with their type:  *)
(*   string            a TLA+ string                                        *)
(*   struct            the sequence of its field values, in field order    *)
(*   slice             a sequence                                          *)
(*   map[string]T      a function from a subset of Keys                    *)
(*   pointer           <<>> (nil) or <<v>> (pointing at v)                 *)
(* An address is [obj, off]: an allocation and an offset in it, so that    *)
(* an embedded struct and its first field share an address as they do in   *)
(* memory.                                                                 *)
(***************************************************************************)
EXTENDS Integers, Sequences, FiniteSets, TLC

VARIABLES call, ret, dst, log, doc, frames

vars == <<call, ret, dst, log, doc, frames>>

(***************************************************************************)
(* Bounds of the model.                                                    *)
(***************************************************************************)
MaxLen == 2

\* Strings a field can hold on input: empty, an allowed value, and a value
\* that is not allowed until it is lower-cased.
StrIn == {"", "ach", "ACH"}

\* Keys of the map[string]T values.
Keys == {"k1", "k2"}

\* Contexts handed to ValidateCtx; "bg" is context.Background().
Ctxs == {"bg", "strict"}

(***************************************************************************)
(* The type universe: the declarations a caller of the library writes.     *)
(***************************************************************************)
NoFields == <<>>

F(name, json, anon, type, docs) ==
    [name |-> name, json |-> json, anon |-> anon, type |-> type, docs |-> docs]

Scalar(vr) ==
    [kind |-> "string", elem |-> "", fields |-> NoFields, ruler |-> "none",
     vrules |-> vr, norm |-> "none"]

Struct(fields, ruler, norm) ==
    [kind |-> "struct", elem |-> "", fields |-> fields, ruler |-> ruler,
     vrules |-> <<>>, norm |-> norm]

Coll(kind, elem) ==
    [kind |-> kind, elem |-> elem, fields |-> NoFields, ruler |-> "none",
     vrules |-> <<>>, norm |-> "none"]

StructTypes ==
    {"valBase", "valWithEmbed", "valDeep", "valPtrEmbed", "valCtxChild", "valTypedParent",
     "valBroken", "valNilBound", "valHolder", "normGeo", "normStop", "normRoute",
     "valPtrParent", "User", "checkMissing", "checkTagSkip", "checkJSONSkip", "checkShadow",
     "valSkipped", "schemaWithSkipField", "schemaPlainSkip", "schemaPtrEmbedSkip",
     "normDepot"}

TypeNames ==
    StructTypes \cup
    {"string", "int", "nil", "*string", "[]string", "*[]string", "PaymentMethod",
     "[]valCtxChild", "map[string]valCtxChild", "map[string][]valCtxChild",
     "[]valBroken", "map[string]valNilBound", "[]normStop",
     "*valBase", "*valWithEmbed", "*valDeep", "*valPtrEmbed", "*valCtxChild",
     "*valTypedParent", "*valBroken", "*valNilBound", "*valHolder", "*normRoute",
     "*[]valCtxChild", "*map[string]valCtxChild", "*map[string][]valCtxChild",
     "[]PaymentMethod", "[]*valCtxChild", "*valPtrParent", "*normStop",
     "*[]normStop", "*checkMissing", "*checkTagSkip", "*checkJSONSkip", "*checkShadow",
     "*valSkipped", "*schemaWithSkipField", "**valCtxChild",
     "*normGeo", "map[string]normGeo", "map[string]*normGeo", "*normDepot"}

TypeOf(n) ==
    CASE n = "string"        -> Scalar(<<>>)
      [] n = "PaymentMethod" -> Scalar(<<"InPM">>)
      [] n = "int"           -> [Scalar(<<>>) EXCEPT !.kind = "int"]
      [] n = "nil"           -> [Scalar(<<>>) EXCEPT !.kind = "invalid"]
      [] n = "*string"       -> Coll("ptr", "string")
      [] n = "[]string"      -> Coll("slice", "string")
      [] n = "*[]string"     -> Coll("ptr", "[]string")
      [] n = "valBase" ->
            Struct(<<F("ID", "", FALSE, "string", "")>>, "Ruler", "none")
      [] n = "valWithEmbed" ->
            Struct(<<F("valBase", "", TRUE, "valBase", ""),
                     F("Value", "", FALSE, "string", "")>>, "Ruler", "none")
      [] n = "valDeep" ->
            Struct(<<F("valWithEmbed", "", TRUE, "valWithEmbed", ""),
                     F("Extra", "extra", FALSE, "string", "")>>, "Ruler", "none")
      [] n = "valPtrEmbed" ->
            Struct(<<F("valBase", "", TRUE, "*valBase", ""),
                     F("Note", "note", FALSE, "string", "")>>, "Ruler", "none")
      [] n = "valCtxChild" ->
            Struct(<<F("Name", "name", FALSE, "string", "")>>, "ContextRuler", "none")
      [] n = "valTypedParent" ->
            Struct(<<F("Title", "", FALSE, "string", ""),
                     F("Children", "children", FALSE, "[]valCtxChild", ""),
                     F("Method", "method", FALSE, "PaymentMethod", "")>>,
                   "Ruler", "none")
      [] n = "valBroken" ->
            Struct(<<F("Name", "name", FALSE, "string", "")>>, "Ruler", "none")
      [] n = "valNilBound" ->
            Struct(<<F("Name", "name", FALSE, "string", "")>>, "Ruler", "none")
      [] n = "valHolder" ->
            Struct(<<F("Items", "items", FALSE, "[]valBroken", ""),
                     F("ByKey", "byKey", FALSE, "map[string]valNilBound", ""),
                     F("Tag", "tag", FALSE, "string", "")>>, "Ruler", "none")
      [] n = "normGeo" ->
            Struct(<<F("Code", "code", FALSE, "string", "")>>, "Ruler", "Normalizer")
      [] n = "normStop" ->
            Struct(<<F("City", "city", FALSE, "string", ""),
                     F("Geo", "geo", FALSE, "normGeo", "")>>, "Ruler", "Normalizer")
      [] n = "normDepot" ->
            Struct(<<F("Stops", "stops", FALSE, "map[string]normGeo", ""),
                     F("Refs", "refs", FALSE, "map[string]*normGeo", "")>>,
                   "none", "none")
      [] n = "*normGeo"               -> Coll("ptr", "normGeo")
      [] n = "map[string]normGeo"     -> Coll("map", "normGeo")
      [] n = "map[string]*normGeo"    -> Coll("map", "*normGeo")
      [] n = "*normDepot"             -> Coll("ptr", "normDepot")
      [] n = "normRoute" ->
            Struct(<<F("Name", "name", FALSE, "string", ""),
                     F("Addresses", "addresses", FALSE, "[]normStop", "")>>,
                   "Ruler", "ContextNormalizer")
      [] n = "valPtrParent" ->
            Struct(<<F("Kids", "kids", FALSE, "[]*valCtxChild", "")>>, "Ruler", "none")
      [] n = "User" ->
            Struct(<<F("Name", "name", FALSE, "string", ""),
                     F("Email", "email", FALSE, "string", "")>>, "Ruler", "none")
      [] n = "schemaWithSkipField" ->
            Struct(<<F("Public", "public", FALSE, "string", ""),
                     F("Secret", "secret", FALSE, "string", "skip"),
                     F("Another", "another", FALSE, "string", "")>>, "Ruler", "none")
      [] n = "schemaPlainSkip" ->
            Struct(<<F("Public", "public", FALSE, "string", ""),
                     F("Secret", "secret", FALSE, "string", "skip")>>, "none", "none")
      [] n = "schemaPtrEmbedSkip" ->
            Struct(<<F("schemaWithSkipField", "", TRUE, "*schemaWithSkipField", ""),
                     F("Note", "note", FALSE, "string", "")>>, "Ruler", "none")
      [] n = "*schemaWithSkipField"   -> Coll("ptr", "schemaWithSkipField")
      [] n = "valSkipped" ->
            Struct(<<F("Name", "name", FALSE, "string", "")>>, "Ruler", "none")
      [] n = "*valSkipped"            -> Coll("ptr", "valSkipped")
      [] n = "**valCtxChild"          -> Coll("ptr", "*valCtxChild")
      [] n = "checkMissing" ->
            Struct(<<F("Name", "", FALSE, "string", ""),
                     F("Email", "", FALSE, "string", ""),
                     F("Age", "", FALSE, "int", "")>>, "Ruler", "none")
      [] n = "checkTagSkip" ->
            Struct(<<F("Name", "", FALSE, "string", ""),
                     F("TraceID", "", FALSE, "string", ""),
                     F("Counter", "", FALSE, "int", "")>>, "Ruler", "none")
      [] n = "checkJSONSkip" ->
            Struct(<<F("Name", "", FALSE, "string", ""),
                     F("Internal", "-", FALSE, "string", "")>>, "Ruler", "none")
      [] n = "checkShadow" ->
            Struct(<<F("valBase", "", TRUE, "valBase", ""),
                     F("ID", "", FALSE, "string", "")>>, "Ruler", "none")
      [] n = "*checkMissing"          -> Coll("ptr", "checkMissing")
      [] n = "*checkTagSkip"          -> Coll("ptr", "checkTagSkip")
      [] n = "*checkJSONSkip"         -> Coll("ptr", "checkJSONSkip")
      [] n = "*checkShadow"           -> Coll("ptr", "checkShadow")
      [] n = "[]PaymentMethod"        -> Coll("slice", "PaymentMethod")
      [] n = "[]*valCtxChild"         -> Coll("slice", "*valCtxChild")
      [] n = "*valPtrParent"          -> Coll("ptr", "valPtrParent")
      [] n = "*normStop"              -> Coll("ptr", "normStop")
      [] n = "*[]normStop"            -> Coll("ptr", "[]normStop")
      [] n = "[]valCtxChild"             -> Coll("slice", "valCtxChild")
      [] n = "map[string]valCtxChild"    -> Coll("map", "valCtxChild")
      [] n = "map[string][]valCtxChild"  -> Coll("map", "[]valCtxChild")
      [] n = "[]valBroken"            -> Coll("slice", "valBroken")
      [] n = "map[string]valNilBound"   -> Coll("map", "valNilBound")
      [] n = "[]normStop"          -> Coll("slice", "normStop")
      [] n = "*valBase"               -> Coll("ptr", "valBase")
      [] n = "*valWithEmbed"          -> Coll("ptr", "valWithEmbed")
      [] n = "*valDeep"               -> Coll("ptr", "valDeep")
      [] n = "*valPtrEmbed"           -> Coll("ptr", "valPtrEmbed")
      [] n = "*valCtxChild"              -> Coll("ptr", "valCtxChild")
      [] n = "*valTypedParent"             -> Coll("ptr", "valTypedParent")
      [] n = "*valBroken"             -> Coll("ptr", "valBroken")
      [] n = "*valNilBound"             -> Coll("ptr", "valNilBound")
      [] n = "*valHolder"             -> Coll("ptr", "valHolder")
      [] n = "*normRoute"             -> Coll("ptr", "normRoute")
      [] n = "*[]valCtxChild"            -> Coll("ptr", "[]valCtxChild")
      [] n = "*map[string]valCtxChild"   -> Coll("ptr", "map[string]valCtxChild")
      [] n = "*map[string][]valCtxChild" -> Coll("ptr", "map[string][]valCtxChild")

NoType == [name |-> ""]

RECURSIVE Type(_)
\* The reflect.Type of the type named n: its name, kind and method sets, the
\* type of its elements and its fields with their types.
Type(n) ==
    LET d == TypeOf(n)
    IN  [name   |-> n,
         kind   |-> d.kind,
         elem   |-> IF d.elem = "" THEN NoType ELSE Type(d.elem),
         fields |-> [i \in 1..Len(d.fields) |->
                        [d.fields[i] EXCEPT !.type = Type(d.fields[i].type)]],
         ruler  |-> d.ruler,
         vrules |-> d.vrules,
         norm   |-> d.norm]

\* reflect's accessors of a type t.
Kind(t) == t.kind
Elem(t) == t.elem
Fields(t) == t.fields
NumField(t) == Len(t.fields)

\* A binding as the declarator writes it: Field(&s.<path>, rules...) is
\* B("self", path, rules); a pointer to the same field of some other instance
\* is "other"; a nil *T is "nil".  Field's signature admits only a *T, so a
\* declarator outside the package cannot write a non-pointer binding
\* ("nonptr"), which the traversals nevertheless test for.
B(rel, path, rules) == [rel |-> rel, path |-> path, rules |-> rules]

\* The body of Rules() / Rules(ctx) of the type named t.
RulesOf(t, ctx) ==
    CASE t = "valBase"      -> <<B("self", <<1>>, <<"Required">>)>>
      [] t = "valWithEmbed" -> <<B("self", <<1>>, <<>>),
                                 B("self", <<2>>, <<"Required">>)>>
      [] t = "valDeep"      -> <<B("self", <<1>>, <<>>),
                                 B("self", <<2>>, <<"Required", "In">>)>>
      [] t = "valPtrEmbed"  -> <<B("self", <<1>>, <<"Required">>),
                                 B("self", <<2>>, <<"Describe", "In">>)>>
      [] t = "valCtxChild"     -> IF ctx = "strict"
                               THEN <<B("self", <<1>>, <<"Required", "In">>)>>
                               ELSE <<B("self", <<1>>, <<"Required">>)>>
      [] t = "valTypedParent"    -> <<B("self", <<1>>, <<"Required">>),
                                 B("self", <<2>>, <<>>),
                                 B("self", <<3>>, <<"Required">>)>>
      [] t = "valBroken"    -> <<B("other", <<1>>, <<"Required">>)>>
      [] t = "valNilBound"    -> <<B("nil", <<1>>, <<"Required">>)>>
      [] t = "valHolder"    -> <<B("self", <<1>>, <<>>),
                                 B("self", <<2>>, <<>>),
                                 B("self", <<3>>, <<"Required">>)>>
      [] t = "valPtrParent" -> <<B("self", <<1>>, <<>>)>>
      [] t = "schemaWithSkipField" -> <<B("self", <<1>>, <<"Required">>),
                                        B("self", <<3>>, <<>>)>>
      [] t = "schemaPtrEmbedSkip"  -> <<B("self", <<2>>, <<"Required">>)>>
      [] t = "valSkipped"    -> <<B("self", <<1>>, <<"Skip", "Required">>)>>
      [] t = "checkMissing"  -> <<B("self", <<1>>, <<"Required">>)>>
      [] t = "checkTagSkip"  -> <<B("self", <<1>>, <<"Required">>)>>
      [] t = "checkJSONSkip" -> <<B("self", <<1>>, <<"Required">>)>>
      [] t = "checkShadow"   -> <<B("self", <<2>>, <<"Required">>)>>
      [] t = "User"         -> <<B("self", <<1>>, <<"Required">>),
                                 B("self", <<2>>, <<"Required">>)>>
      [] t = "normGeo"      -> <<B("self", <<1>>, <<"In">>)>>
      [] t = "normStop"  -> <<B("self", <<1>>, <<"Required", "In">>),
                                 B("self", <<2>>, <<>>)>>
      [] t = "normRoute"    -> <<B("self", <<1>>, <<"Required", "In">>),
                                 B("self", <<2>>, <<>>)>>
      [] OTHER              -> <<>>

(***************************************************************************)
(* Values, layout and addresses.                                           *)
(***************************************************************************)
NilPtr == <<>>
PtrTo(x) == <<x>>

RECURSIVE Size(_)
RECURSIVE SizeUpTo(_, _)
\* The words a value of type t occupies: a struct is laid out field by field.
Size(t) == IF Kind(t) = "struct" THEN SizeUpTo(t, NumField(t)) ELSE 1
SizeUpTo(t, n) == IF n = 0 THEN 0 ELSE SizeUpTo(t, n - 1) + Size(Fields(t)[n].type)

\* Offset of field i in a struct of type t.
FieldOff(t, i) == SizeUpTo(t, i - 1)

RECURSIVE OffAt(_, _)
RECURSIVE TypeAt(_, _)
RECURSIVE ValAt(_, _)
\* &s.a.b: offset, static type and value along a path of field indices.
OffAt(t, path) ==
    IF path = <<>> THEN 0
    ELSE FieldOff(t, Head(path)) + OffAt(Fields(t)[Head(path)].type, Tail(path))
TypeAt(t, path) ==
    IF path = <<>> THEN t ELSE TypeAt(Fields(t)[Head(path)].type, Tail(path))
ValAt(v, path) ==
    IF path = <<>> THEN v ELSE ValAt(v[Head(path)], Tail(path))

Addr(obj, off) == [obj |-> obj, off |-> off]

\* The allocation a freshly addressed container lives in, and one that
\* belongs to some other instance.
SelfObj == <<>>
OtherObj == <<-1>>
NilObj == <<-2>>

RECURSIVE Values(_)
RECURSIVE StructVals(_, _)
RECURSIVE SeqsUpTo(_, _)
SeqsUpTo(S, n) ==
    IF n = 0 THEN {<<>>}
    ELSE SeqsUpTo(S, n - 1) \cup
         {Append(s, x) : s \in {q \in SeqsUpTo(S, n - 1) : Len(q) = n - 1}, x \in S}
StructVals(t, n) ==
    IF n = 0 THEN {<<>>}
    ELSE {Append(p, x) : p \in StructVals(t, n - 1), x \in Values(Fields(t)[n].type)}
\* The input values of each type, within the bounds.
Values(t) ==
    CASE Kind(t) = "string" -> StrIn
      [] Kind(t) = "int"    -> {0}
      [] Kind(t) = "struct" -> StructVals(t, NumField(t))
      [] Kind(t) = "slice"  -> SeqsUpTo(Values(Elem(t)), MaxLen)
      [] Kind(t) = "map"    -> UNION {[D -> Values(Elem(t))] : D \in SUBSET Keys}
      [] Kind(t) = "ptr"    -> {NilPtr} \cup {PtrTo(x) : x \in Values(Elem(t))}

RECURSIVE Call(_, _)

(***************************************************************************)
(* Field, FieldRules and findStructField.                                  *)
(***************************************************************************)
\* Field(fieldPtr, rules...) evaluated inside a declarator whose receiver of
\* type t is at address base.
Field(t, base, b) ==
    [isPtr |-> b.rel # "nonptr",
     obj   |-> CASE b.rel = "self"  -> base.obj
                 [] b.rel = "other" -> OtherObj
                 [] OTHER           -> NilObj,
     off   |-> IF b.rel = "self" THEN base.off + OffAt(t, b.path) ELSE OffAt(t, b.path),
     type  |-> TypeAt(t, b.path),
     rules |-> b.rules,
     tag   |-> ""]

\* r.Rules() / r.Rules(ctx) on a receiver of struct type t at address base.
Rules(t, base, ctx) ==
    LET bs == RulesOf(t.name, IF t.ruler = "ContextRuler" THEN ctx ELSE "bg")
    IN  [i \in 1..Len(bs) |-> Field(t, base, bs[i])]

NotFound == [found |-> FALSE, sf |-> F("", "", FALSE, NoType, ""), path |-> <<>>]

RECURSIVE findStructFieldFrom(_, _, _, _, _)
\* The loop of findStructField from index i downwards.  path is the field's
\* index path, by which the model reads the value the pointer points at.
findStructFieldFrom(t, v, base, fp, i) ==
    IF i < 1 THEN NotFound
    ELSE LET sf    == Fields(t)[i]
             faddr == Addr(base.obj, base.off + FieldOff(t, i))
         IN  IF fp.obj = faddr.obj /\ fp.off = faddr.off /\ sf.type.name = fp.type.name
             THEN [found |-> TRUE, sf |-> sf, path |-> <<i>>]
             ELSE IF sf.anon
                  THEN LET isPtr  == Kind(sf.type) = "ptr"
                           fiType == IF isPtr THEN Elem(sf.type) ELSE sf.type
                           fiOk   == IF isPtr THEN v[i] # NilPtr ELSE TRUE
                           fiVal  == IF isPtr THEN v[i][1] ELSE v[i]
                           fiBase == IF isPtr THEN Addr(Append(base.obj, faddr.off), 0)
                                     ELSE faddr
                           f      == findStructFieldFrom(fiType, fiVal, fiBase, fp,
                                                         NumField(fiType))
                       IN  IF fiOk /\ Kind(fiType) = "struct" /\ f.found
                           THEN [f EXCEPT !.path = <<i>> \o f.path]
                           ELSE findStructFieldFrom(t, v, base, fp, i - 1)
                  ELSE findStructFieldFrom(t, v, base, fp, i - 1)

findStructField(t, v, base, fp) == findStructFieldFrom(t, v, base, fp, NumField(t))

\* Does a pointer to a value of type t implement Ruler or ContextRuler?
\* Every declarator of the universe has a pointer receiver.
PtrImplementsRuler(t) == Kind(t) = "struct" /\ t.ruler # "none"

\* value.(Ruler) / value.(ContextRuler) for a value of dynamic type t.
ImplementsRuler(t) == Kind(t) = "ptr" /\ PtrImplementsRuler(Elem(t))

\* value.(ValueRuler): a value-receiver method is in the method set of the
\* type and of the pointer to it.
ImplementsValueRuler(t) ==
    \/ t.vrules # <<>>
    \/ Kind(t) = "ptr" /\ Elem(t).vrules # <<>>

ValueRules(t) == IF Kind(t) = "ptr" THEN Elem(t).vrules ELSE t.vrules

(***************************************************************************)
(* The embedding expander.                                                 *)
(***************************************************************************)
\* The invocations a call logs: a declarator (Rules), a rule's Validate with
\* the value it is given, a normalization hook with the place of its receiver.
Ev(ev, what) == [ev |-> ev, what |-> what]
EvRule(rule, v) == [ev |-> "rule", what |-> rule, val |-> v]
EvNorm(t, path) == [ev |-> "Normalize", what |-> t.name, path |-> path]

RECURSIVE expandFieldsFrom(_, _, _, _, _, _, _, _)
\* The loop of expandFields over fields[i..]; acc is result, lg the
\* declarator invocations made so far.
expandFieldsFrom(ctx, t, v, base, fields, i, acc, lg) ==
    IF i > Len(fields) THEN [fields |-> acc, log |-> lg]
    ELSE LET fr == fields[i]
             sf == Call("findStructField", <<t, v, base, fr>>)
         IN  IF fr.isPtr /\ sf.found /\ sf.sf.anon /\ PtrImplementsRuler(fr.type)
             THEN LET inner == expandFieldsFrom(ctx, fr.type, ValAt(v, sf.path),
                                   Addr(fr.obj, fr.off),
                                   Rules(fr.type, Addr(fr.obj, fr.off), ctx), 1, <<>>,
                                   Append(lg, Ev("Rules", fr.type.name)))
                  IN  expandFieldsFrom(ctx, t, v, base, fields, i + 1,
                                       acc \o inner.fields, inner.log)
             ELSE expandFieldsFrom(ctx, t, v, base, fields, i + 1, Append(acc, fr), lg)

\* expandFields(ctx, structPtr, fields) for structPtr pointing at the struct
\* value v of type t at address base.
expandFields(ctx, t, v, base, fields, lg) ==
    IF Kind(t) # "struct" THEN [fields |-> fields, log |-> lg]
    ELSE Call("expandFieldsFrom", <<ctx, t, v, base, fields, 1, <<>>, lg>>)

(***************************************************************************)
(* Errors and the rule library.                                            *)
(***************************************************************************)
NoErr == [kind |-> "nil"]
Leaf(msg) == [kind |-> "leaf", msg |-> msg]
\* validation.Errors: field key -> error.
Errors(m) == [kind |-> "errors", m |-> m]
\* validation.InternalError: a binding configuration error.
Internal(msg) == [kind |-> "internal", msg |-> msg]

\* A run-time panic of reflect (Value.Interface or Value.Set on a value it
\* must not hand out), as the outcome of a call.
Panic == [kind |-> "panic"]

R(err, lg) == [err |-> err, log |-> lg]

RECURSIVE IsNilValue(_, _)
RECURSIVE IsEmpty(_, _)
RECURSIVE Indirect(_, _)
RECURSIVE IndirectType(_)
\* validation.Indirect: follow pointers; nil when one of them is nil.
IsNilValue(t, v) ==
    \/ Kind(t) = "invalid"
    \/ Kind(t) = "ptr" /\ (v = NilPtr \/ IsNilValue(Elem(t), v[1]))
Indirect(t, v) == IF Kind(t) = "ptr" THEN Indirect(Elem(t), v[1]) ELSE v
IndirectType(t) == IF Kind(t) = "ptr" THEN IndirectType(Elem(t)) ELSE t
\* validation.IsEmpty.
IsEmpty(t, v) ==
    CASE Kind(t) = "string" -> v = ""
      [] Kind(t) = "int"    -> v = 0
      [] Kind(t) = "invalid" -> TRUE
      [] Kind(t) = "slice"  -> Len(v) = 0
      [] Kind(t) = "map"    -> DOMAIN v = {}
      [] Kind(t) = "ptr"    -> v = NilPtr \/ IsEmpty(Elem(t), v[1])
      [] OTHER              -> FALSE

\* The values In("ach", "cc") and In(paymentACH, paymentCC) list.
InValues == {"ach", "cc"}

\* rule.Validate(value) for the rules of the library the universe uses.  In
\* compares with reflect.DeepEqual, so the listed values' type counts.
RuleValidate(rule, t, v) ==
    CASE rule = "Required" ->
            IF IsNilValue(t, v) \/ IsEmpty(t, v) THEN Leaf("cannot be blank") ELSE NoErr
      [] rule \in {"In", "InPM"} ->
            IF IsNilValue(t, v) \/ IsEmpty(t, v) THEN NoErr
            ELSE IF /\ IndirectType(t).name = (IF rule = "In" THEN "string" ELSE "PaymentMethod")
                    /\ Indirect(t, v) \in InValues
                 THEN NoErr
                 ELSE Leaf("must be one of")
      [] OTHER -> NoErr

(***************************************************************************)
(* The validation traversal.  Every operator returns [err, log]: the error *)
(* and the invocations (declarators, rules) made, in order.  ord is the    *)
(* order in which this run's map iterations produce the keys.              *)
(***************************************************************************)
\* The key under which ValidateStruct reports a field (getErrorFieldName).
ErrorFieldName(sf) == IF sf.json # "" /\ sf.json # "-" THEN sf.json ELSE sf.name

DigitStr == <<"0", "1", "2", "3", "4", "5", "6", "7", "8", "9">>
RECURSIVE Itoa(_)
\* strconv.Itoa for a non-negative index.
Itoa(n) == IF n < 10 THEN DigitStr[n + 1] ELSE Itoa(n \div 10) \o DigitStr[(n % 10) + 1]

\* fmt.Sprintf("%v", key) of a string map key.
SprintKey(k) == k

\* m with key k set to e.
Put(m, k, e) == [x \in (DOMAIN m) \cup {k} |-> IF x = k THEN e ELSE m[x]]
\* m with every entry of n written over it.
Merge(m, n) == [x \in (DOMAIN m) \cup (DOMAIN n) |-> IF x \in DOMAIN n THEN n[x] ELSE m[x]]
NoErrors == [x \in {} |-> NoErr]

\* Is the element type one whose collections are walked?
RECURSIVE shouldAutoValidate(_)
shouldAutoValidate(elemType) ==
    IF Kind(elemType) = "struct" /\ PtrImplementsRuler(elemType) THEN TRUE
    ELSE IF Kind(elemType) \in {"slice", "map"} THEN shouldAutoValidate(Elem(elemType))
    ELSE FALSE

\* A convertFieldRules that puts the rulerBridge in front of every binding's
\* rules, so that the nested validation runs first: what C25 rules out.
convertFieldRulesBridgeFirst(ctx, t, v, base, fields, lg) ==
    LET flat == Call("expandFields", <<ctx, t, v, base, fields, lg>>)
    IN  [fields |-> [i \in 1..Len(flat.fields) |->
                        [flat.fields[i] EXCEPT !.rules = <<"rulerBridge">> \o @]],
         log |-> flat.log]

\* convertFieldRules: expand the embedded bindings, then append the
\* rulerBridge to every binding's rules.
convertFieldRules(ctx, t, v, base, fields, lg) ==
    LET flat == Call("expandFields", <<ctx, t, v, base, fields, lg>>)
    IN  [fields |-> [i \in 1..Len(flat.fields) |->
                        [flat.fields[i] EXCEPT !.rules = Append(@, "rulerBridge")]],
         log |-> flat.log]

RECURSIVE validateCore(_, _, _, _, _)
RECURSIVE validateValueRules(_, _, _, _, _)
RECURSIVE validateElement(_, _, _, _, _, _)
RECURSIVE validateSlice(_, _, _, _, _, _, _)
RECURSIVE validateMap(_, _, _, _, _, _, _)
RECURSIVE ozzoValidate(_, _, _, _, _, _, _)
RECURSIVE ValidateStructFrom(_, _, _, _, _, _, _, _)

\* (*rulerBridge).Validate; a field value is never the untyped nil here.
rulerBridge(ctx, ord, t, v, lg) == Call("validateCore", <<ctx, ord, t, v, lg>>)

\* validation.Validate(value, rules...) from rule i on: the first error ends
\* the field's rules.  Its test for a skip rule asks for validation's own
\* unexported skipRule type, which no rule of this library has.
ozzoValidate(ctx, ord, t, v, rules, i, lg) ==
    IF i > Len(rules) THEN R(NoErr, lg)
    ELSE LET r == IF rules[i] = "rulerBridge"
                  THEN Call("rulerBridge", <<ctx, ord, t, v, lg>>)
                  ELSE R(RuleValidate(rules[i], t, v), Append(lg, EvRule(rules[i], v)))
         IN  IF r.err # NoErr THEN r
             ELSE ozzoValidate(ctx, ord, t, v, rules, i + 1, r.log)

RECURSIVE ValidateStructFromFirstOnly(_, _, _, _, _, _, _, _)
\* A ValidateStruct loop that returns at the first invalid field instead of
\* collecting: what C1 rules out.
ValidateStructFromFirstOnly(ctx, ord, t, v, fields, i, errs, lg) ==
    IF i > Len(fields) THEN R(NoErr, lg)
    ELSE LET fr == fields[i]
             ft == Call("findStructField", <<t, v, Addr(SelfObj, 0), fr>>)
         IN  IF ~fr.isPtr THEN R(Internal("field must be a pointer"), lg)
             ELSE IF ~ft.found THEN R(Internal("field not found"), lg)
             ELSE LET r == Call("ozzoValidate", <<ctx, ord, fr.type, ValAt(v, ft.path),
                                                  fr.rules, 1, lg>>)
                  IN  IF r.err = NoErr
                      THEN ValidateStructFromFirstOnly(ctx, ord, t, v, fields, i + 1,
                                                       errs, r.log)
                      ELSE IF r.err.kind = "internal" THEN r
                      ELSE IF ft.sf.anon /\ r.err.kind = "errors" THEN r
                      ELSE R(Errors(Put(errs, ErrorFieldName(ft.sf), r.err)), r.log)

RECURSIVE ValidateStructFromNested(_, _, _, _, _, _, _, _)
\* A ValidateStruct loop that stores the errors of an embedded field under
\* the embedded field's name instead of merging them: what C2 rules out.
ValidateStructFromNested(ctx, ord, t, v, fields, i, errs, lg) ==
    IF i > Len(fields)
    THEN R(IF DOMAIN errs # {} THEN Errors(errs) ELSE NoErr, lg)
    ELSE LET fr == fields[i]
             ft == Call("findStructField", <<t, v, Addr(SelfObj, 0), fr>>)
         IN  IF ~fr.isPtr THEN R(Internal("field must be a pointer"), lg)
             ELSE IF ~ft.found THEN R(Internal("field not found"), lg)
             ELSE LET r == Call("ozzoValidate", <<ctx, ord, fr.type, ValAt(v, ft.path),
                                                  fr.rules, 1, lg>>)
                  IN  IF r.err = NoErr
                      THEN ValidateStructFromNested(ctx, ord, t, v, fields, i + 1,
                                                    errs, r.log)
                      ELSE IF r.err.kind = "internal" THEN r
                      ELSE ValidateStructFromNested(ctx, ord, t, v, fields, i + 1,
                               Put(errs, ErrorFieldName(ft.sf), r.err), r.log)

\* The loop of validation.ValidateStruct over fields[i..] for the struct
\* value v of type t; errs collects the field errors.
ValidateStructFrom(ctx, ord, t, v, fields, i, errs, lg) ==
    IF i > Len(fields)
    THEN R(IF DOMAIN errs # {} THEN Errors(errs) ELSE NoErr, lg)
    ELSE LET fr == fields[i]
             ft == Call("findStructField", <<t, v, Addr(SelfObj, 0), fr>>)
         IN  IF ~fr.isPtr THEN R(Internal("field must be a pointer"), lg)
             ELSE IF ~ft.found THEN R(Internal("field not found"), lg)
             ELSE LET r == Call("ozzoValidate", <<ctx, ord, fr.type, ValAt(v, ft.path),
                                        fr.rules, 1, lg>>)
                  IN  IF r.err = NoErr
                      THEN ValidateStructFrom(ctx, ord, t, v, fields, i + 1, errs, r.log)
                      ELSE IF r.err.kind = "internal" THEN r
                      ELSE IF ft.sf.anon /\ r.err.kind = "errors"
                      THEN ValidateStructFrom(ctx, ord, t, v, fields, i + 1,
                                              Merge(errs, r.err.m), r.log)
                      ELSE ValidateStructFrom(ctx, ord, t, v, fields, i + 1,
                                              Put(errs, ErrorFieldName(ft.sf), r.err),
                                              r.log)

\* validation.ValidateStruct(structPtr, convertFieldRules(ctx, structPtr,
\* r.Rules()...)...) for a pointer to the struct value v of type t.
ValidateStruct(ctx, ord, t, v, lg) ==
    LET base == Addr(SelfObj, 0)
        conv == Call("convertFieldRules", <<ctx, t, v, base, Rules(t, base, ctx),
                                  Append(lg, Ev("Rules", t.name))>>)
    IN  Call("ValidateStructFrom", <<ctx, ord, t, v, conv.fields, 1, NoErrors, conv.log>>)

\* A validateValueRules that applies none of the type's own rules: what C10
\* rules out.
validateNoValueRules(t, v, rules, i, lg) == R(NoErr, lg)

validateValueRules(t, v, rules, i, lg) ==
    IF i > Len(rules) THEN R(NoErr, lg)
    ELSE LET e == RuleValidate(rules[i], t, v)
             l == Append(lg, EvRule(rules[i], v))
         IN  IF e # NoErr THEN R(e, l) ELSE validateValueRules(t, v, rules, i + 1, l)

\* A validateCore that looks for a declarator on the value as it is handed
\* in and never on a pointer to a copy of it: what C13 rules out.
validateCoreAsHandedIn(ctx, ord, t, v, lg) ==
    IF Kind(t) = "ptr" /\ v = NilPtr THEN R(NoErr, lg)
    ELSE IF ImplementsRuler(t) THEN Call("ValidateStruct", <<ctx, ord, Elem(t), v[1], lg>>)
    ELSE IF ImplementsValueRuler(t) THEN Call("validateValueRules", <<t, v, ValueRules(t), 1, lg>>)
    ELSE LET rt == IF Kind(t) = "ptr" THEN Elem(t) ELSE t
             rv == IF Kind(t) = "ptr" THEN v[1] ELSE v
         IN  CASE Kind(rt) = "map" /\ shouldAutoValidate(Elem(rt)) ->
                      Call("validateMap", <<ctx, ord, rt, rv, 1, NoErrors, lg>>)
               [] Kind(rt) = "slice" /\ shouldAutoValidate(Elem(rt)) ->
                      Call("validateSlice", <<ctx, ord, rt, rv, 1, NoErrors, lg>>)
               [] Kind(rt) = "ptr" ->
                      IF rv = NilPtr THEN R(Panic, lg)
                      ELSE Call("validateCore", <<ctx, ord, Elem(rt), rv[1], lg>>)
               [] OTHER -> R(NoErr, lg)

\* A validateCore that rejects a nil pointer as a missing value: what C14
\* rules out.
validateCoreNilRejected(ctx, ord, t, v, lg) ==
    IF Kind(t) = "ptr" /\ v = NilPtr THEN R(Leaf("cannot be blank"), lg)
    ELSE IF ImplementsRuler(t) THEN Call("ValidateStruct", <<ctx, ord, Elem(t), v[1], lg>>)
    ELSE IF Kind(t) = "struct" /\ PtrImplementsRuler(t)
         THEN Call("ValidateStruct", <<ctx, ord, t, v, lg>>)
    ELSE IF ImplementsValueRuler(t) THEN Call("validateValueRules", <<t, v, ValueRules(t), 1, lg>>)
    ELSE LET rt == IF Kind(t) = "ptr" THEN Elem(t) ELSE t
             rv == IF Kind(t) = "ptr" THEN v[1] ELSE v
         IN  CASE Kind(rt) = "map" /\ shouldAutoValidate(Elem(rt)) ->
                      Call("validateMap", <<ctx, ord, rt, rv, 1, NoErrors, lg>>)
               [] Kind(rt) = "slice" /\ shouldAutoValidate(Elem(rt)) ->
                      Call("validateSlice", <<ctx, ord, rt, rv, 1, NoErrors, lg>>)
               [] Kind(rt) = "ptr" ->
                      IF rv = NilPtr THEN R(Panic, lg)
                      ELSE Call("validateCore", <<ctx, ord, Elem(rt), rv[1], lg>>)
               [] OTHER -> R(NoErr, lg)

validateCore(ctx, ord, t, v, lg) ==
    IF Kind(t) = "ptr" /\ v = NilPtr THEN R(NoErr, lg)
    ELSE IF ImplementsRuler(t) THEN Call("ValidateStruct", <<ctx, ord, Elem(t), v[1], lg>>)
    ELSE IF Kind(t) = "struct" /\ PtrImplementsRuler(t)
         THEN Call("ValidateStruct", <<ctx, ord, t, v, lg>>)
    ELSE IF ImplementsValueRuler(t) THEN Call("validateValueRules", <<t, v, ValueRules(t), 1, lg>>)
    ELSE LET rt == IF Kind(t) = "ptr" THEN Elem(t) ELSE t
             rv == IF Kind(t) = "ptr" THEN v[1] ELSE v
         IN  CASE Kind(rt) = "map" /\ shouldAutoValidate(Elem(rt)) ->
                      Call("validateMap", <<ctx, ord, rt, rv, 1, NoErrors, lg>>)
               [] Kind(rt) = "slice" /\ shouldAutoValidate(Elem(rt)) ->
                      Call("validateSlice", <<ctx, ord, rt, rv, 1, NoErrors, lg>>)
               [] Kind(rt) = "ptr" ->
                      IF rv = NilPtr THEN R(Panic, lg)
                      ELSE validateCore(ctx, ord, Elem(rt), rv[1], lg)
               [] OTHER -> R(NoErr, lg)

\* validateElement for an element v of type t; addressable tells whether
\* reflect can take its address (slice elements yes, map values no).
validateElement(ctx, ord, t, v, addressable, lg) ==
    IF Kind(t) = "ptr" /\ v = NilPtr THEN R(NoErr, lg)
    ELSE IF (addressable \/ Kind(t) = "struct") /\ PtrImplementsRuler(t)
         THEN Call("validateCore", <<ctx, ord, t, v, lg>>)
    ELSE IF Kind(t) \in {"slice", "map"} THEN Call("validateCore", <<ctx, ord, t, v, lg>>)
    ELSE R(NoErr, lg)

RECURSIVE validateSliceOneBased(_, _, _, _, _, _, _)
\* A validateSlice that keys an element by its position counted from one:
\* what C3 rules out.
validateSliceOneBased(ctx, ord, t, v, i, errs, lg) ==
    IF i > Len(v) THEN R(IF DOMAIN errs # {} THEN Errors(errs) ELSE NoErr, lg)
    ELSE LET r == Call("validateElement", <<ctx, ord, Elem(t), v[i], TRUE, lg>>)
         IN  validateSliceOneBased(ctx, ord, t, v, i + 1,
                 IF r.err # NoErr THEN Put(errs, Itoa(i), r.err) ELSE errs, r.log)

\* The loop of validateSlice from index i (1-based here, 0-based keys).
validateSlice(ctx, ord, t, v, i, errs, lg) ==
    IF i > Len(v) THEN R(IF DOMAIN errs # {} THEN Errors(errs) ELSE NoErr, lg)
    ELSE LET r == Call("validateElement", <<ctx, ord, Elem(t), v[i], TRUE, lg>>)
         IN  validateSlice(ctx, ord, t, v, i + 1,
                           IF r.err # NoErr THEN Put(errs, Itoa(i - 1), r.err) ELSE errs,
                           r.log)

\* The loop of validateMap over the keys in the order ord gives them.
validateMap(ctx, ord, t, v, i, errs, lg) ==
    IF i > Len(ord) THEN R(IF DOMAIN errs # {} THEN Errors(errs) ELSE NoErr, lg)
    ELSE IF ord[i] \notin DOMAIN v THEN validateMap(ctx, ord, t, v, i + 1, errs, lg)
    ELSE LET r == Call("validateElement", <<ctx, ord, Elem(t), v[ord[i]], FALSE, lg>>)
         IN  validateMap(ctx, ord, t, v, i + 1,
                         IF r.err # NoErr THEN Put(errs, SprintKey(ord[i]), r.err) ELSE errs,
                         r.log)

(***************************************************************************)
(* The normalization traversal.  Every operator returns [val, log]: the    *)
(* value as the hooks left it and the hook invocations, in order.  path   *)
(* names the place of a value under the top-level one.                     *)
(***************************************************************************)
N(val, lg) == [val |-> val, log |-> lg]

\* The fields whose names begin with a lower-case letter.
Unexported == {"valBase", "valWithEmbed"}

\* sf.IsExported().
IsExported(sf) == sf.name \notin Unexported

\* The entry that ends the log of a walk that panicked.
Panicked(lg) == lg # <<>> /\ lg[Len(lg)].ev = "panic"

\* Does the walk, at the unexported field of type ft holding x, hand a value
\* reached through it to Interface or Set?
ReadsThroughUnexported(ft, x) ==
    CASE Kind(ft) = "struct" -> TRUE
      [] Kind(ft) = "ptr"    -> x # NilPtr
      [] Kind(ft) = "slice"  ->
            \E j \in 1..Len(x) : \/ Kind(Elem(ft)) = "struct"
                                 \/ Kind(Elem(ft)) = "ptr" /\ x[j] # NilPtr
      [] Kind(ft) = "map"    -> Kind(Elem(ft)) = "struct" /\ DOMAIN x # {}
      [] OTHER               -> FALSE

\* strings.ToLower on the strings of the universe.
Lower(s) == IF s = "ACH" THEN "ach" ELSE s

\* The body of each type's Normalize: it lower-cases the receiver's own
\* string field.
Hook(t, v, ctx) ==
    CASE t.name = "normRoute"   -> [v EXCEPT ![1] = Lower(@)]
      [] t.name = "normStop" -> [v EXCEPT ![1] = Lower(@)]
      [] t.name = "normGeo"     -> [v EXCEPT ![1] = Lower(@)]
      [] OTHER             -> v

\* callNormalize(ctx, &v) for v of type t: the context-carrying hook first,
\* else the context-free one, else nothing.
callNormalize(ctx, t, v, path, lg) ==
    IF t.norm \in {"ContextNormalizer", "Normalizer"}
    THEN N(Hook(t, v, ctx), Append(lg, EvNorm(t, path)))
    ELSE N(v, lg)

RECURSIVE walkNormalize(_, _, _, _, _, _)
RECURSIVE walkFields(_, _, _, _, _, _, _)
RECURSIVE walkSlice(_, _, _, _, _, _, _)
RECURSIVE walkMap(_, _, _, _, _, _, _)
RECURSIVE walkMapCopyDiscarded(_, _, _, _, _, _, _)

\* A walk that runs the hooks of the values nested in a struct before the
\* struct's own hook: what C6 rules out.
walkStructChildrenFirst(ctx, ord, t, v, path, lg) ==
    LET w == Call("walkNormalize", <<ctx, ord, t, v, path, lg>>)
    IN  Call("callNormalize", <<ctx, t, w.val, path, w.log>>)

\* A struct value reached by the walk: its own hook, then its fields.
walkStruct(ctx, ord, t, v, path, lg) ==
    LET c == Call("callNormalize", <<ctx, t, v, path, lg>>)
    IN  Call("walkNormalize", <<ctx, ord, t, c.val, path, c.log>>)

\* A non-nil pointer reached by the walk.
walkPtr(ctx, ord, t, v, path, lg) ==
    IF v = NilPtr THEN N(v, lg)
    ELSE LET c == Call("callNormalize", <<ctx, Elem(t), v[1], path, lg>>)
             w == IF Kind(Elem(t)) = "struct"
                  THEN Call("walkNormalize", <<ctx, ord, Elem(t), c.val, path, c.log>>)
                  ELSE c
         IN  N(PtrTo(w.val), w.log)

\* The slice case of walkNormalize, from element i.
walkSlice(ctx, ord, t, v, i, path, lg) ==
    IF i > Len(v) THEN N(v, lg)
    ELSE LET p == Append(path, Itoa(i - 1))
             e == CASE Kind(Elem(t)) = "struct" ->
                          Call("walkStruct", <<ctx, ord, Elem(t), v[i], p, lg>>)
                    [] Kind(Elem(t)) = "ptr" -> Call("walkPtr", <<ctx, ord, Elem(t), v[i], p, lg>>)
                    [] OTHER -> N(v[i], lg)
         IN  IF Panicked(e.log) THEN N([v EXCEPT ![i] = e.val], e.log)
             ELSE walkSlice(ctx, ord, t, [v EXCEPT ![i] = e.val], i + 1, path, e.log)

\* A map case that normalizes the copy of a struct value and leaves the map
\* as it was: what C28 rules out.
walkMapCopyDiscarded(ctx, ord, t, v, i, path, lg) ==
    IF i > Len(ord) THEN N(v, lg)
    ELSE IF ord[i] \notin DOMAIN v \/ Kind(Elem(t)) # "struct"
    THEN walkMapCopyDiscarded(ctx, ord, t, v, i + 1, path, lg)
    ELSE LET e == Call("walkStruct", <<ctx, ord, Elem(t), v[ord[i]], Append(path, ord[i]), lg>>)
         IN  walkMapCopyDiscarded(ctx, ord, t, v, i + 1, path, e.log)

\* The map case of walkNormalize: a struct value is copied out, normalized
\* and stored back under its key.
walkMap(ctx, ord, t, v, i, path, lg) ==
    IF i > Len(ord) THEN N(v, lg)
    ELSE IF ord[i] \notin DOMAIN v \/ Kind(Elem(t)) # "struct"
    THEN walkMap(ctx, ord, t, v, i + 1, path, lg)
    ELSE LET e == Call("walkStruct", <<ctx, ord, Elem(t), v[ord[i]], Append(path, ord[i]), lg>>)
         IN  IF Panicked(e.log) THEN N(v, e.log)
             ELSE walkMap(ctx, ord, t, [v EXCEPT ![ord[i]] = e.val], i + 1, path, e.log)

\* The loop of walkNormalize over the fields from index i.
walkFields(ctx, ord, t, v, i, path, lg) ==
    IF i > NumField(t) THEN N(v, lg)
    ELSE LET ft == Fields(t)[i].type
             p  == Append(path, Fields(t)[i].name)
             e  == CASE ~IsExported(Fields(t)[i]) /\ ReadsThroughUnexported(ft, v[i]) ->
                          N(v[i], Append(lg, Ev("panic", Fields(t)[i].name)))
                     [] Kind(ft) = "struct" -> Call("walkStruct", <<ctx, ord, ft, v[i], p, lg>>)
                     [] Kind(ft) = "ptr"    -> Call("walkPtr", <<ctx, ord, ft, v[i], p, lg>>)
                     [] Kind(ft) = "slice"  -> Call("walkSlice", <<ctx, ord, ft, v[i], 1, p, lg>>)
                     [] Kind(ft) = "map"    -> Call("walkMap", <<ctx, ord, ft, v[i], 1, p, lg>>)
                     [] OTHER               -> N(v[i], lg)
         IN  IF Panicked(e.log) THEN N([v EXCEPT ![i] = e.val], e.log)
             ELSE walkFields(ctx, ord, t, [v EXCEPT ![i] = e.val], i + 1, path, e.log)

walkNormalize(ctx, ord, t, v, path, lg) == Call("walkFields", <<ctx, ord, t, v, 1, path, lg>>)

\* normalizeRecursive(ctx, a) for a non-nil interface a of dynamic type t:
\* the top-level hook, then the walk when a is (a pointer to) a struct.
normalizeRecursive(ctx, ord, t, v, lg) ==
    IF Kind(t) = "ptr"
    THEN IF v = NilPtr THEN N(v, lg)
         ELSE LET c == Call("callNormalize", <<ctx, Elem(t), v[1], <<>>, lg>>)
                  w == IF Kind(Elem(t)) = "struct"
                       THEN Call("walkNormalize", <<ctx, ord, Elem(t), c.val, <<>>, c.log>>)
                       ELSE c
              IN  N(PtrTo(w.val), w.log)
    ELSE IF Kind(t) = "struct" THEN Call("walkNormalize", <<ctx, ord, t, v, <<>>, lg>>)
    ELSE N(v, lg)

(***************************************************************************)
(* JSON documents and encoding/json's decoding of them into a Go value.    *)
(***************************************************************************)
JNull == [j |-> "null"]
JStr(x) == [j |-> "str", s |-> x]
JArr(a) == [j |-> "arr", a |-> a]
JObj(o) == [j |-> "obj", o |-> o]

\* The bytes a caller hands in: not JSON at all, or the text of a document.
BadSyntax == [valid |-> FALSE]
Doc(j) == [valid |-> TRUE, json |-> j]

\* The key encoding/json reads a field from.
jsonKey(sf) == IF sf.json # "" /\ sf.json # "-" THEN sf.json ELSE sf.name

RECURSIVE Zero(_)
\* The zero value of a type.
Zero(t) ==
    CASE Kind(t) = "string" -> ""
      [] Kind(t) = "int"    -> 0
      [] Kind(t) = "struct" -> [i \in 1..NumField(t) |-> Zero(Fields(t)[i].type)]
      [] Kind(t) = "slice"  -> <<>>
      [] Kind(t) = "map"    -> <<>>
      [] Kind(t) = "ptr"    -> NilPtr

D(val, ok) == [val |-> val, ok |-> ok]

RECURSIVE Unmarshal(_, _, _)
\* json.Unmarshal of document j into a value cur of type t: the value it
\* leaves and whether every part of the document fitted its target.  A part
\* that does not fit is skipped and decoding goes on, as encoding/json does
\* for an UnmarshalTypeError.
Unmarshal(t, j, cur) ==
    CASE j.j = "null" ->
            D(IF Kind(t) \in {"ptr", "slice", "map"} THEN Zero(t) ELSE cur, TRUE)
      [] Kind(t) = "ptr" /\ j.j # "null" ->
            LET e == Unmarshal(Elem(t), j, IF cur = NilPtr THEN Zero(Elem(t)) ELSE cur[1])
            IN  D(PtrTo(e.val), e.ok)
      [] Kind(t) = "string" /\ j.j # "null" ->
            IF j.j = "str" THEN D(j.s, TRUE) ELSE D(cur, FALSE)
      [] Kind(t) = "struct" /\ j.j # "null" ->
            IF j.j # "obj" THEN D(cur, FALSE)
            ELSE LET part == [i \in 1..NumField(t) |->
                                 LET sf == Fields(t)[i]
                                 IN  IF sf.anon THEN Unmarshal(sf.type, j, cur[i])
                                     ELSE IF sf.json # "-" /\ jsonKey(sf) \in DOMAIN j.o
                                     THEN Unmarshal(sf.type, j.o[jsonKey(sf)], cur[i])
                                     ELSE D(cur[i], TRUE)]
                 IN  D([i \in 1..NumField(t) |-> part[i].val],
                       \A i \in 1..NumField(t) : part[i].ok)
      [] Kind(t) = "slice" /\ j.j # "null" ->
            IF j.j # "arr" THEN D(cur, FALSE)
            ELSE LET part == [i \in 1..Len(j.a) |-> Unmarshal(Elem(t), j.a[i], Zero(Elem(t)))]
                 IN  D([i \in 1..Len(j.a) |-> part[i].val],
                       \A i \in 1..Len(j.a) : part[i].ok)
      [] Kind(t) = "map" /\ j.j # "null" ->
            IF j.j # "obj" THEN D(cur, FALSE)
            ELSE LET part == [k \in DOMAIN j.o |-> Unmarshal(Elem(t), j.o[k], Zero(Elem(t)))]
                 IN  D([k \in DOMAIN j.o |-> part[k].val],
                       \A k \in DOMAIN j.o : part[k].ok)

RECURSIVE Marshal(_, _)
RECURSIVE MarshalFields(_, _, _)
\* The document json.Marshal writes for a value, which is how the documents
\* handed to the decoding entry points are drawn.
Marshal(t, v) ==
    CASE Kind(t) = "string" -> JStr(v)
      [] Kind(t) = "ptr"    -> IF v = NilPtr THEN JNull ELSE Marshal(Elem(t), v[1])
      [] Kind(t) = "slice"  -> JArr([i \in 1..Len(v) |-> Marshal(Elem(t), v[i])])
      [] Kind(t) = "map"    -> JObj([k \in DOMAIN v |-> Marshal(Elem(t), v[k])])
      [] Kind(t) = "struct" -> JObj(MarshalFields(t, v, 1))

\* The members written for the fields from index i: those of an embedded
\* struct are written as members of the enclosing object.
MarshalFields(t, v, i) ==
    IF i > NumField(t) THEN <<>>
    ELSE LET sf   == Fields(t)[i]
             rest == MarshalFields(t, v, i + 1)
         IN  IF sf.anon /\ Kind(sf.type) = "struct"
             THEN Merge(Marshal(sf.type, v[i]).o, rest)
             ELSE Put(rest, jsonKey(sf), Marshal(sf.type, v[i]))

DecodeErr == [kind |-> "decode"]

\* An entry point that validates what was decoded and normalizes afterwards:
\* what C5 rules out.
unmarshalValidateThenNormalize(ctx, ord, t, raw, cur) ==
    IF ~raw.valid THEN [err |-> DecodeErr, log |-> <<>>, dst |-> cur]
    ELSE LET d == Unmarshal(Elem(t), raw.json, cur[1])
         IN  IF ~d.ok THEN [err |-> DecodeErr, log |-> <<>>, dst |-> PtrTo(d.val)]
             ELSE LET r == Call("validateCore", <<ctx, ord, t, PtrTo(d.val), <<>> >>)
                      n == Call("normalizeRecursive", <<ctx, ord, t, PtrTo(d.val), r.log>>)
                  IN  [err |-> r.err, log |-> n.log, dst |-> n.val]

\* An entry point that normalizes and validates whatever the decoder left in
\* the target, its error notwithstanding: what C7 rules out.
unmarshalIgnoringDecodeError(ctx, ord, t, raw, cur) ==
    LET d == IF raw.valid THEN Unmarshal(Elem(t), raw.json, cur[1]) ELSE D(cur[1], FALSE)
        n == Call("normalizeRecursive", <<ctx, ord, t, PtrTo(d.val), <<>> >>)
        r == Call("validateCore", <<ctx, ord, t, n.val, n.log>>)
    IN  [err |-> IF r.err # NoErr THEN r.err ELSE IF d.ok THEN NoErr ELSE DecodeErr,
         log |-> r.log, dst |-> n.val]

\* The body shared by UnmarshalAndValidateCtx and DecodeAndValidateContext
\* for a destination pointer of type t pointing at cur: decode, return the
\* decoder's error if there is one, else normalize and validate.  The result
\* is [err, log, dst].
unmarshalAndValidate(ctx, ord, t, raw, cur) ==
    IF ~raw.valid THEN [err |-> DecodeErr, log |-> <<>>, dst |-> cur]
    ELSE LET d == Unmarshal(Elem(t), raw.json, cur[1])
         IN  IF ~d.ok THEN [err |-> DecodeErr, log |-> <<>>, dst |-> PtrTo(d.val)]
             ELSE LET n == Call("normalizeRecursive", <<ctx, ord, t, PtrTo(d.val), <<>> >>)
                      r == Call("validateCore", <<ctx, ord, t, n.val, n.log>>)
                  IN  IF Panicked(n.log) THEN [err |-> Panic, log |-> n.log, dst |-> n.val]
                      ELSE [err |-> r.err, log |-> r.log, dst |-> n.val]

(***************************************************************************)
(* Schema generation: the openapi3gen generator and the customizer         *)
(* (schemaDoc) it calls for every type it generates.  Every operator       *)
(* returns [err, schema, log].  po is the order in which this run's        *)
(* iterations over a Properties map produce the keys.                      *)
(***************************************************************************)
\* An openapi3.Schema: sub holds the items / additionalProperties schema.
NewSchema(type) ==
    [type |-> type, props |-> <<>>, required |-> <<>>, enum |-> {}, desc |-> "",
     sub |-> <<>>]

G(err, schema, lg) == [err |-> err, schema |-> schema, log |-> lg]

SchemaErr(msg) == [kind |-> "schema", msg |-> msg]


RECURSIVE AppendFields(_, _)
\* jsoninfo's field list of a struct type: an embedded field without a json
\* tag contributes its own fields, an unexported field none.
AppendFields(t, i) ==
    IF i > NumField(t) THEN <<>>
    ELSE LET sf   == Fields(t)[i]
             st   == IF Kind(sf.type) = "ptr" THEN Elem(sf.type) ELSE sf.type
             rest == AppendFields(t, i + 1)
         IN  IF sf.anon /\ sf.json = "-" THEN rest
             ELSE IF sf.anon /\ sf.json = "" /\ Kind(st) = "struct"
             THEN AppendFields(st, 1) \o rest
             ELSE IF sf.name \in Unexported \/ sf.json = "-" THEN rest
             ELSE <<[key |-> jsonKey(sf), hasTag |-> sf.json # "", type |-> sf.type]>>
                  \o rest

\* rule.Describe(name, schema, ref) with ref the property name of schema:
\* what it writes on the property and on the schema that holds it.
DescribeRef(rule, ref) ==
    CASE rule \in {"In", "InPM"} -> [ref EXCEPT !.enum = InValues]
      [] rule = "Describe" ->
            [ref EXCEPT !.desc = IF @ = "" THEN "text" ELSE @ \o " " \o "text"]
      [] OTHER -> ref
DescribeSchema(rule, name, schema) ==
    IF rule = "Required" THEN [schema EXCEPT !.required = Append(@, name)] ELSE schema
Describe(rule, name, schema) ==
    DescribeSchema(rule, name, [schema EXCEPT !.props[name] = DescribeRef(rule, @)])

RECURSIVE removeSkippedFields(_, _, _, _)
\* removeSkippedFields over the fields from index i of the struct value v.
removeSkippedFields(t, v, i, schema) ==
    IF i > NumField(t) THEN schema
    ELSE LET sf == Fields(t)[i]
             ft == IF Kind(sf.type) = "ptr" THEN Elem(sf.type) ELSE sf.type
             ok == Kind(sf.type) # "ptr" \/ v[i] # NilPtr
             fv == IF Kind(sf.type) = "ptr" THEN v[i][1] ELSE v[i]
             s1 == IF sf.anon
                   THEN IF ok /\ Kind(ft) = "struct"
                        THEN removeSkippedFields(ft, fv, 1, schema)
                        ELSE schema
                   ELSE IF sf.docs # "skip" THEN schema
                   ELSE [schema EXCEPT !.props =
                            [k \in (DOMAIN schema.props) \ {sf.json} |-> schema.props[k]]]
         IN  removeSkippedFields(t, v, i + 1, s1)

RECURSIVE mapFieldsToTagsSkipping(_, _, _, _, _)
\* A mapFieldsToTags that leaves a binding it cannot resolve without a tag
\* and goes on: what C9 rules out.
mapFieldsToTagsSkipping(fields, t, v, base, i) ==
    IF i > Len(fields) THEN [err |-> NoErr, fields |-> fields]
    ELSE LET fr == fields[i]
             sf == Call("findStructField", <<t, v, base, fr>>)
         IN  mapFieldsToTagsSkipping([fields EXCEPT ![i].tag =
                                         IF ~fr.isPtr \/ ~sf.found \/ sf.sf.anon THEN ""
                                         ELSE sf.sf.json],
                                     t, v, base, i + 1)

RECURSIVE mapFieldsToTags(_, _, _, _, _)
\* mapFieldsToTags from binding i: [err, fields], the bindings with their tags.
mapFieldsToTags(fields, t, v, base, i) ==
    IF i > Len(fields) THEN [err |-> NoErr, fields |-> fields]
    ELSE LET fr == fields[i]
             sf == Call("findStructField", <<t, v, base, fr>>)
         IN  IF ~fr.isPtr
             THEN [err |-> SchemaErr("must be a pointer"), fields |-> fields]
             ELSE IF ~sf.found
             THEN [err |-> SchemaErr("not found in struct"), fields |-> fields]
             ELSE mapFieldsToTags([fields EXCEPT ![i].tag =
                                      IF sf.sf.anon THEN "" ELSE sf.sf.json],
                                  t, v, base, i + 1)

RECURSIVE DescribeAll(_, _, _, _)
\* The rules of one binding described on property k, from rule j.
DescribeAll(rules, j, k, schema) ==
    IF j > Len(rules) THEN schema
    ELSE DescribeAll(rules, j + 1, k, Describe(rules[j], k, schema))

RECURSIVE applyRulesToSchema(_, _, _, _, _)
\* applyRulesToSchema: the loops over the properties (from the i-th in this
\* run's order) and over the bindings (from the j-th).
applyRulesToSchema(po, fields, i, j, schema) ==
    IF i > Len(po) THEN schema
    ELSE IF po[i] \notin DOMAIN schema.props \/ j > Len(fields)
    THEN applyRulesToSchema(po, fields, i + 1, 1, schema)
    ELSE applyRulesToSchema(po, fields, i, j + 1,
             IF fields[j].tag # po[i] THEN schema
             ELSE DescribeAll(fields[j].rules, 1, po[i], schema))

RECURSIVE applyValueRulerSchema(_, _, _, _)
\* applyValueRulerSchema from rule i: the type's own rules described on the
\* schema generated for it.
applyValueRulerSchema(t, name, i, schema) ==
    IF i > Len(t.vrules) THEN schema
    ELSE applyValueRulerSchema(t, name, i + 1,
                               DescribeSchema(t.vrules[i], name,
                                              DescribeRef(t.vrules[i], schema)))

\* getRulesForType(t): reflect.New(t) and its Rules with the background
\* context, when *t is a declarator.
getRulesForType(t) ==
    IF PtrImplementsRuler(t)
    THEN [vi |-> TRUE, fields |-> Rules(t, Addr(SelfObj, 0), "bg")]
    ELSE [vi |-> FALSE, fields |-> <<>>]

\* The customizer schemaDoc(value) called with (name, t, tag, schema).  No
\* field of the universe has an interface type, so the branch that resolves
\* one is never taken.
schemaDoc(po, name, t, schema, lg) ==
    LET r == getRulesForType(t)
    IN  IF ~r.vi THEN G(NoErr, applyValueRulerSchema(t, name, 1, schema), lg)
        ELSE LET base == Addr(SelfObj, 0)
                 v    == Zero(t)
                 ex   == Call("expandFields",
                              <<"bg", t, v, base, r.fields, Append(lg, Ev("Rules", t.name))>>)
                 sk   == removeSkippedFields(t, v, 1, schema)
                 m    == mapFieldsToTags(ex.fields, t, v, base, 1)
             IN  IF m.err # NoErr THEN G(m.err, sk, ex.log)
                 ELSE G(NoErr, applyRulesToSchema(po, m.fields, 1, 1, sk), ex.log)

RECURSIVE generateSchemaRefFor(_, _, _, _)
RECURSIVE generateProperties(_, _, _, _, _)

\* The generator's loop over the fields of a struct from the i-th: only a
\* field with a json tag becomes a property.
generateProperties(po, fs, i, schema, lg) ==
    IF i > Len(fs) THEN G(NoErr, schema, lg)
    ELSE IF ~fs[i].hasTag THEN generateProperties(po, fs, i + 1, schema, lg)
    ELSE LET g == generateSchemaRefFor(po, fs[i].type, fs[i].key, lg)
         IN  IF g.err # NoErr THEN g
             ELSE generateProperties(po, fs, i + 1,
                      [schema EXCEPT !.props = Put(@, fs[i].key, g.schema)], g.log)

\* The generator on type t under the name name: pointers are followed, the
\* schema is built by kind, then the customizer is called on it.
generateSchemaRefFor(po, t, name, lg) ==
    IF Kind(t) = "ptr" THEN generateSchemaRefFor(po, Elem(t), name, lg)
    ELSE LET g == CASE Kind(t) = "struct" ->
                          generateProperties(po, AppendFields(t, 1), 1,
                                             NewSchema("object"), lg)
                    [] Kind(t) \in {"slice", "map"} ->
                          LET e == generateSchemaRefFor(po, Elem(t), name, lg)
                          IN  G(e.err,
                                [NewSchema(IF Kind(t) = "slice" THEN "array" ELSE "object")
                                   EXCEPT !.sub = <<e.schema>>],
                                e.log)
                    [] OTHER -> G(NoErr, NewSchema("string"), lg)
         IN  IF g.err # NoErr THEN g
             ELSE Call("schemaDoc", <<po, name, t, g.schema, g.log>>)

\* NewSchemaRefForValue(value) for a value of type t.
NewSchemaRefForValue(po, t) == Call("generateSchemaRefFor", <<po, t, "_root", <<>> >>)

(***************************************************************************)
(* Call(fn, a) applies the operator named fn to the arguments a: the calls *)
(* one traversal operator makes to another go through it.                 *)
(***************************************************************************)
Call(fn, a) ==
    CASE fn = "validateCore" -> validateCore(a[1], a[2], a[3], a[4], a[5])
      [] fn = "ValidateStruct" -> ValidateStruct(a[1], a[2], a[3], a[4], a[5])
      [] fn = "ValidateStructFrom" -> ValidateStructFrom(a[1], a[2], a[3], a[4], a[5], a[6], a[7], a[8])
      [] fn = "ozzoValidate" -> ozzoValidate(a[1], a[2], a[3], a[4], a[5], a[6], a[7])
      [] fn = "rulerBridge" -> rulerBridge(a[1], a[2], a[3], a[4], a[5])
      [] fn = "validateElement" -> validateElement(a[1], a[2], a[3], a[4], a[5], a[6])
      [] fn = "validateSlice" -> validateSlice(a[1], a[2], a[3], a[4], a[5], a[6], a[7])
      [] fn = "validateMap" -> validateMap(a[1], a[2], a[3], a[4], a[5], a[6], a[7])
      [] fn = "validateValueRules" -> validateValueRules(a[1], a[2], a[3], a[4], a[5])
      [] fn = "convertFieldRules" -> convertFieldRules(a[1], a[2], a[3], a[4], a[5], a[6])
      [] fn = "expandFields" -> expandFields(a[1], a[2], a[3], a[4], a[5], a[6])
      [] fn = "expandFieldsFrom" -> expandFieldsFrom(a[1], a[2], a[3], a[4], a[5], a[6], a[7], a[8])
      [] fn = "findStructField" -> findStructField(a[1], a[2], a[3], a[4])
      [] fn = "callNormalize" -> callNormalize(a[1], a[2], a[3], a[4], a[5])
      [] fn = "walkNormalize" -> walkNormalize(a[1], a[2], a[3], a[4], a[5], a[6])
      [] fn = "walkFields" -> walkFields(a[1], a[2], a[3], a[4], a[5], a[6], a[7])
      [] fn = "walkStruct" -> walkStruct(a[1], a[2], a[3], a[4], a[5], a[6])
      [] fn = "walkPtr" -> walkPtr(a[1], a[2], a[3], a[4], a[5], a[6])
      [] fn = "walkSlice" -> walkSlice(a[1], a[2], a[3], a[4], a[5], a[6], a[7])
      [] fn = "walkMap" -> walkMap(a[1], a[2], a[3], a[4], a[5], a[6], a[7])
      [] fn = "normalizeRecursive" -> normalizeRecursive(a[1], a[2], a[3], a[4], a[5])
      [] fn = "unmarshalAndValidate" -> unmarshalAndValidate(a[1], a[2], a[3], a[4], a[5])
      [] fn = "schemaDoc" -> schemaDoc(a[1], a[2], a[3], a[4], a[5])
      [] fn = "generateSchemaRefFor" -> generateSchemaRefFor(a[1], a[2], a[3], a[4])

(***************************************************************************)
(* The rules of the library, each Validate called on a value by itself.    *)
(* The strings of these values are listed with what the rules read of      *)
(* them.                                                                   *)
(***************************************************************************)
CardNumber == "4111111111111111"

RuleStrings == {"", " ", "ach", "42", CardNumber}

\* strings.TrimSpace.
TrimSpace(s) == IF s = " " THEN "" ELSE s

\* alphabeticRegexp.ReplaceAllString(s, "") = "": s holds no letter.
NoLetter(s) == s \in {"", " ", "42", CardNumber}

\* len(numberRegexp.ReplaceAllString(s, "")): the number of digits of s.
DigitCount(s) == CASE s = "42" -> 2 [] s = CardNumber -> 16 [] OTHER -> 0

\* utf8.RuneCountInString.
RuneCount(s) ==
    CASE s = "" -> 0 [] s = " " -> 1 [] s = "42" -> 2 [] s = "ach" -> 3 [] s = CardNumber -> 16

\* strconv.ParseInt(s, 10, 64): [ok, n].
ParseInt(s) == IF s = "42" THEN [ok |-> TRUE, n |-> 42] ELSE [ok |-> FALSE, n |-> 0]

creditCardNumberLength == 16

\* A Unique that compares the keys from the second element on only: what
\* C19 rules out.
uniqueRuleValidateFromSecond(t, v, f) ==
    IF Kind(t) = "ptr" /\ v = NilPtr THEN NoErr
    ELSE LET rt == IF Kind(t) = "ptr" THEN Elem(t) ELSE t
             rv == IF Kind(t) = "ptr" THEN v[1] ELSE v
         IN  IF Kind(rt) = "slice"
             THEN IF Len(rv) > 0 /\ Cardinality({f[i] : i \in 2..Len(rv)}) # Len(rv) - 1
                  THEN Leaf("not unique")
                  ELSE NoErr
             ELSE Leaf("must be slice")

\* uniqueRule.Validate(value) for value of type t, f[i + 1] being r.f(i).
uniqueRuleValidate(t, v, f) ==
    IF Kind(t) = "ptr" /\ v = NilPtr THEN NoErr
    ELSE LET rt == IF Kind(t) = "ptr" THEN Elem(t) ELSE t
             rv == IF Kind(t) = "ptr" THEN v[1] ELSE v
         IN  IF Kind(rt) = "slice"
             THEN IF Cardinality({f[i] : i \in 1..Len(rv)}) # Len(rv)
                  THEN Leaf("not unique")
                  ELSE NoErr
             ELSE Leaf("must be slice")

\* hasAlphabetic.Validate(value); cc is isCreditCardNumberCheck.
hasAlphabeticValidate(cc, t, v) ==
    IF t.name # "string" THEN Leaf("expected string")
    ELSE IF TrimSpace(v) = "" THEN NoErr
    ELSE IF NoLetter(TrimSpace(v))
         THEN IF cc
              THEN IF DigitCount(TrimSpace(v)) # creditCardNumberLength THEN NoErr
                   ELSE Leaf("must not be a credit card number")
              ELSE Leaf("must contain at least one alphabetic character")
    ELSE NoErr

\* validation.ThresholdRule.Validate(value) of validation.Min(threshold)
\* for an int64 value n, and for a value of another kind (ToInt fails).
ozzoMinValidate(threshold, isInt, n) ==
    IF ~isInt THEN Leaf("cannot convert to int64")
    ELSE IF n >= threshold THEN NoErr
    ELSE Leaf("must be no less than")

\* thresholdRule.Validate(value) of Min(threshold), threshold an int.
thresholdRuleValidate(threshold, t, v) ==
    IF IsNilValue(t, v) \/ IsEmpty(t, v) THEN NoErr
    ELSE LET rt == IndirectType(t)
             rv == Indirect(t, v)
         IN  IF Kind(rt) # "string"
             THEN ozzoMinValidate(threshold, Kind(rt) = "int", rv)
             ELSE IF ~ParseInt(rv).ok THEN Leaf("must be int64")
             ELSE ozzoMinValidate(threshold, TRUE, ParseInt(rv).n)

\* lengthRule.Validate(value) of Length(lo, hi): validation.RuneLength.
lengthRuleValidate(lo, hi, t, v) ==
    IF IsNilValue(t, v) \/ IsEmpty(t, v) THEN NoErr
    ELSE LET rt == IndirectType(t)
             rv == Indirect(t, v)
             l  == IF Kind(rt) = "string" THEN RuneCount(rv) ELSE Len(rv)
         IN  IF Kind(rt) \notin {"string", "slice"} THEN Leaf("cannot get the length of")
             ELSE IF l < lo \/ l > hi THEN Leaf("the length must be between")
             ELSE NoErr

\* The rules called by themselves: Min(1), Length(1, 3), In("ach", "cc"),
\* Unique(f, desc), HasAlphabetic(), NonCreditCardNumber(), Required, and
\* When(c, desc, Required, Length(1, 3)).Else(In("ach", "cc")) for c true
\* and c false.
StandaloneRules ==
    {"Required", "In", "Min", "Length", "Unique", "HasAlphabetic", "NonCreditCardNumber",
     "When(true)", "When(false)"}

WhenRules == <<"Required", "Length">>
ElseRules == <<"In">>

RECURSIVE StandaloneValidate(_, _, _, _)
RECURSIVE validateAll(_, _, _, _)
\* validation.Validate(value, rules...) from rule i: the first error.
validateAll(rules, i, t, v) ==
    IF i > Len(rules) THEN NoErr
    ELSE LET e == StandaloneValidate(rules[i], t, v, <<>>)
         IN  IF e # NoErr THEN e ELSE validateAll(rules, i + 1, t, v)

\* validation.WhenRule.Validate(value): the rules when the condition is
\* true, else the else-rules handed to validation.WhenRule.Else.
ozzoWhenValidate(condition, rules, elseRules, t, v) ==
    IF condition THEN validateAll(rules, 1, t, v) ELSE validateAll(elseRules, 1, t, v)

\* (*whenRule).Validate of When(condition, desc, rules...).Else(elseRules...):
\* the method of the embedded validation.WhenRule, which When builds from
\* rules alone; Else stores elseRules in the wrapper only.
whenRuleValidate(condition, rules, elseRules, t, v) ==
    ozzoWhenValidate(condition, rules, <<>>, t, v)

\* rule.Validate(value) for a rule called by itself.
StandaloneValidate(rule, t, v, f) ==
    CASE rule = "Unique"              -> uniqueRuleValidate(t, v, f)
      [] rule = "When(true)"          -> whenRuleValidate(TRUE, WhenRules, ElseRules, t, v)
      [] rule = "When(false)"         -> whenRuleValidate(FALSE, WhenRules, ElseRules, t, v)
      [] rule = "HasAlphabetic"       -> hasAlphabeticValidate(FALSE, t, v)
      [] rule = "NonCreditCardNumber" -> hasAlphabeticValidate(TRUE, t, v)
      [] rule = "Min"                 -> thresholdRuleValidate(1, t, v)
      [] rule = "Length"              -> lengthRuleValidate(1, 3, t, v)
      [] OTHER                        -> RuleValidate(rule, t, v)

(***************************************************************************)
(* MissingRules: the fields of a declarator's struct that no binding of    *)
(* its expanded rule list covers.                                          *)
(***************************************************************************)
\* The fields tagged validate:"-", by struct and field name.
NoRulesTagged == {<<"checkTagSkip", "TraceID">>, <<"checkTagSkip", "Counter">>}

validateTag(t, sf) == IF <<t.name, sf.name>> \in NoRulesTagged THEN "-" ELSE ""


\* fieldKey(sf): the json tag name if there is one, else the Go name.
fieldKey(sf) == IF sf.json # "" /\ sf.json # "-" THEN sf.json ELSE sf.name

RECURSIVE coveredFrom(_, _, _, _, _)
\* The loop of MissingRules that builds the set of covered keys, from
\* binding i: a binding that is no pointer or resolves to no field is
\* passed over.
coveredFrom(fields, t, v, base, i) ==
    IF i > Len(fields) THEN {}
    ELSE LET sf == Call("findStructField", <<t, v, base, fields[i]>>)
         IN  (IF fields[i].isPtr /\ sf.found THEN {fieldKey(sf.sf)} ELSE {})
             \cup coveredFrom(fields, t, v, base, i + 1)

RECURSIVE collectUncovered(_, _, _, _, _)
\* collectUncovered(t, excl, covered, &missing) from field i of t.
collectUncovered(t, excl, covered, i, missing) ==
    IF i > NumField(t) THEN missing
    ELSE LET sf    == Fields(t)[i]
             inner == IF Kind(sf.type) = "ptr" THEN Elem(sf.type) ELSE sf.type
             key   == fieldKey(sf)
         IN  IF sf.anon
             THEN collectUncovered(t, excl, covered, i + 1,
                      IF Kind(inner) = "struct"
                      THEN collectUncovered(inner, excl, covered, 1, missing)
                      ELSE missing)
             ELSE IF \/ ~IsExported(sf)
                     \/ sf.json = "-"
                     \/ sf.docs = "skip"
                     \/ validateTag(t, sf) = "-"
                     \/ key \in excl
                     \/ sf.name \in excl
                     \/ key \in covered
             THEN collectUncovered(t, excl, covered, i + 1, missing)
             ELSE collectUncovered(t, excl, covered, i + 1, Append(missing, key))

\* MissingRules(structPtr, exclude...) for structPtr of type t holding the
\* non-nil pointer v: [names, log], the list returned and the declarators
\* invoked.
MissingRules(t, v, exclude) ==
    IF ~ImplementsRuler(t) THEN [names |-> <<>>, log |-> <<>>]
    ELSE LET st   == Elem(t)
             base == Addr(SelfObj, 0)
             ex   == Call("expandFields",
                          <<"bg", st, v[1], base, Rules(st, base, "bg"),
                            <<Ev("Rules", st.name)>> >>)
         IN  [names |-> collectUncovered(st, exclude,
                            coveredFrom(ex.fields, st, v[1], base, 1), 1, <<>>),
              log   |-> ex.log]

(***************************************************************************)
(* The calls a program makes.  A call runs whole; Return takes the caller  *)
(* back to where it can call again.                                        *)
(***************************************************************************)
Idle == [op |-> "idle"]
NoDoc == [kind |-> "none"]
NoVal == <<>>

RECURSIVE HasMap(_)
HasMap(t) ==
    CASE Kind(t) = "map" -> TRUE
      [] Kind(t) \in {"slice", "ptr"} -> HasMap(Elem(t))
      [] Kind(t) = "struct" -> \E i \in 1..NumField(t) : HasMap(Fields(t)[i].type)
      [] OTHER -> FALSE

\* The orders in which one run's map iterations can produce the keys.
KeyOrders == {<<"k1", "k2">>, <<"k2", "k1">>}
OrdersFor(t) == IF HasMap(Type(t)) THEN KeyOrders ELSE {<<"k1", "k2">>}

\* What callers hand to Validate: pointers to their values, and some values.
ValidateTypes ==
    {"*valWithEmbed", "*valDeep", "*valPtrEmbed", "*valCtxChild", "*valTypedParent",
     "*valBroken", "*valNilBound", "*valHolder", "*[]valCtxChild",
     "*map[string]valCtxChild", "*map[string][]valCtxChild", "valWithEmbed", "[]valCtxChild",
     "[]PaymentMethod", "[]*valCtxChild", "*valPtrParent", "*normStop", "*valSkipped",
     "**valCtxChild"}

ValidateInputs ==
    UNION {{[type |-> t, val |-> v] : v \in Values(Type(t))} : t \in ValidateTypes}

\* What callers hand to the decoding entry points: a pointer to a zero value
\* of the type, and bytes that are not JSON, or a document that encodes a
\* value of the type, or a document that does not fit the type.
DecodeTypes == {"*normRoute", "*[]normStop", "*valWithEmbed", "*normDepot"}

Misfits ==
    {JStr("ach"),
     JObj([name |-> JArr(<<>>)]),
     JObj([name |-> JStr("ACH"), addresses |-> JStr("")])}

\* Those of them that do not fit a target of type t: a member of an object
\* that the target has no field for is ignored.
MisfitsOf(t) == IF t \in {"*valWithEmbed", "*normDepot"} THEN {JStr("ach")} ELSE Misfits

RawInputs(t) ==
    {BadSyntax} \cup {Doc(Marshal(Type(t), v)) : v \in Values(Type(t))}
                \cup {Doc(j) : j \in MisfitsOf(t)}

DecodeInputs ==
    UNION {{[type |-> t, raw |-> raw] : raw \in RawInputs(t)} : t \in DecodeTypes}

\* What callers hand to the schema entry points: a value of a type, of which
\* only the type counts.
SchemaTypes ==
    {"valWithEmbed", "valDeep", "valPtrEmbed", "valCtxChild", "valTypedParent", "*valTypedParent",
     "valBroken", "valNilBound", "valHolder", "normRoute", "PaymentMethod", "[]valCtxChild",
     "User", "schemaWithSkipField", "schemaPlainSkip", "schemaPtrEmbedSkip"}

RECURSIVE PropKeys(_)
\* The property names of the schemas generated for t.
PropKeys(t) ==
    CASE Kind(t) \in {"ptr", "slice", "map"} -> PropKeys(Elem(t))
      [] Kind(t) = "struct" ->
            LET fs == AppendFields(t, 1)
            IN  UNION {{fs[i].key} \cup PropKeys(fs[i].type) :
                         i \in {j \in 1..Len(fs) : fs[j].hasTag}}
      [] OTHER -> {}

\* The orders in which a run can iterate over the keys S.
Perms(S) ==
    {p \in [1..Cardinality(S) -> S] : \A i, j \in 1..Cardinality(S) : i # j => p[i] # p[j]}

SchemaInputs ==
    UNION {{[type |-> t, po |-> po] : po \in Perms(PropKeys(Type(t)))} : t \in SchemaTypes}

Init ==
    /\ call = Idle
    /\ ret = NoErr
    /\ dst = NoVal
    /\ log = <<>>
    /\ doc = NoDoc
    /\ frames = <<>>

\* The call c returns: what it returned, the events of its run, the target
\* as it leaves it and the schema it built.
Returns(c, err, lg, target, schema) ==
    /\ call' = c
    /\ ret' = err
    /\ log' = lg
    /\ dst' = target
    /\ doc' = schema
    /\ UNCHANGED frames

ValidateReturns(c, in, r) == Returns(c, r.err, r.log, in.val, NoDoc)

\* Validate(value) and ValidateCtx(ctx, value).
ValidateCtx(ctx, in, ord) ==
    /\ call = Idle
    /\ ValidateReturns([op |-> "Validate", type |-> in.type, val |-> in.val,
                        ctx |-> ctx, ord |-> ord],
                       in, Call("validateCore", <<ctx, ord, Type(in.type), in.val, <<>> >>))

Validate(in, ord) == ValidateCtx("bg", in, ord)

DecodingReturns(c, r) == Returns(c, r.err, r.log, r.dst, NoDoc)

Decoding(op, ctx, t, raw, ord) ==
    /\ call = Idle
    /\ DecodingReturns([op |-> op, type |-> t, raw |-> raw, ctx |-> ctx, ord |-> ord],
                       Call("unmarshalAndValidate",
                            <<ctx, ord, Type(t), raw, PtrTo(Zero(Elem(Type(t))))>>))

\* UnmarshalAndValidate(b, dst) is UnmarshalAndValidateCtx with the background
\* context, DecodeAndValidate(r, dst) is DecodeAndValidateContext with it.
UnmarshalAndValidateCtx(ctx, t, raw, ord) ==
    Decoding("UnmarshalAndValidate", ctx, t, raw, ord)

DecodeAndValidateContext(ctx, t, raw, ord) ==
    Decoding("DecodeAndValidate", ctx, t, raw, ord)

NewRequestReturns(c, g) ==
    Returns(c, g.err, g.log, NoVal, IF g.err = NoErr THEN g.schema ELSE NoDoc)

\* NewRequest(v) with the one value v of type t: the schema generated for
\* it, or the error.
NewRequest(t, po) ==
    /\ call = Idle
    /\ NewRequestReturns([op |-> "NewRequest", type |-> t, po |-> po],
                         NewSchemaRefForValue(po, Type(t)))

\* What callers hand to MissingRules: a pointer to a struct and the names
\* to leave out.
MissingTypes ==
    {"*checkMissing", "*checkTagSkip", "*checkJSONSkip", "*checkShadow", "*valWithEmbed",
     "*valDeep", "*valPtrEmbed", "*valCtxChild", "*[]valCtxChild"}

MissingInputs ==
    UNION {{[type |-> t, val |-> v, exclude |-> x] :
              v \in Values(Type(t)) \ {NilPtr}, x \in SUBSET {"Email", "Age", "extra"}} :
           t \in MissingTypes}

\* A list of names as a call's result.
Names(names) == [kind |-> "names", names |-> names]

MissingRulesReturns(c, m) == Returns(c, Names(m.names), m.log, NoVal, NoDoc)

\* A call of MissingRules(structPtr, exclude...).
CallMissingRules(in) ==
    /\ call = Idle
    /\ MissingRulesReturns([op |-> "MissingRules", type |-> in.type, val |-> in.val,
                            exclude |-> in.exclude],
                           MissingRules(Type(in.type), in.val, in.exclude))

\* The keys a key-extraction function handed to Unique yields.
UniqueKeys == {"ach", "cc"}

\* The values handed to a rule's Validate: the untyped nil, strings and
\* pointers to them, ints, and slices and pointers to them.
RuleArgs ==
    {[type |-> "nil", val |-> NilPtr]}
    \cup {[type |-> "string", val |-> x] : x \in RuleStrings}
    \cup {[type |-> "*string", val |-> x] : x \in {NilPtr} \cup {PtrTo(y) : y \in RuleStrings}}
    \cup {[type |-> "int", val |-> x] : x \in 0..2}
    \cup {[type |-> "[]string", val |-> x] : x \in SeqsUpTo(UniqueKeys, MaxLen)}
    \cup {[type |-> "*[]string", val |-> x] :
             x \in {NilPtr} \cup {PtrTo(y) : y \in SeqsUpTo(UniqueKeys, MaxLen)}}

\* The number of elements r.f is asked about.
ArgLen(a) ==
    CASE a.type = "[]string" -> Len(a.val)
      [] a.type = "*[]string" /\ a.val # NilPtr -> Len(a.val[1])
      [] OTHER -> 0

RuleInputs ==
    UNION {{[rule |-> r, type |-> a.type, val |-> a.val, f |-> f] :
              f \in IF r = "Unique" THEN [1..ArgLen(a) -> UniqueKeys] ELSE {<<>>}} :
           r \in StandaloneRules, a \in RuleArgs}

RuleReturns(c, err) == Returns(c, err, <<>>, NoVal, NoDoc)

\* A call of rule.Validate(value).
CallRuleValidate(in) ==
    /\ call = Idle
    /\ RuleReturns([op |-> "Rule.Validate", rule |-> in.rule, type |-> in.type,
                    val |-> in.val, f |-> in.f],
                   StandaloneValidate(in.rule, Type(in.type), in.val, in.f))

(***************************************************************************)
(* Describe called on one schema property.  A description is the sequence  *)
(* of the pieces written to it: texts, and " " for a single space.         *)
(***************************************************************************)
\* The rules whose Describe writes to the description, and the text each
\* contributes.
DescribingRules == {"Describe", "Custom", "Skip", "HasAlphabetic"}
Fragment(rule) ==
    CASE rule = "Describe"      -> "suffix"
      [] rule = "Custom"        -> "custom check"
      [] rule = "Skip"          -> "skipped"
      [] rule = "HasAlphabetic" -> "Must contain at least one alphabetic character."

\* strings.HasSuffix(description, " ").
EndsInSpace(d) == d # <<>> /\ d[Len(d)] = " "

\* Describe of describe, custom, inlineRule, skipRule and the other rules
\* that separate what they append from what is there.
appendDescription(d, text) ==
    (IF d # <<>> /\ ~EndsInSpace(d) THEN Append(d, " ") ELSE d) \o <<text>>

\* hasAlphabetic.Describe: the text and a space, appended as they are.
hasAlphabeticDescribe(d) == d \o <<Fragment("HasAlphabetic"), " ">>

RECURSIVE describeEach(_, _, _)
\* The Describe calls of rules[i..] on a property whose description is d.
describeEach(rules, i, d) ==
    IF i > Len(rules) THEN d
    ELSE describeEach(rules, i + 1,
                      IF rules[i] = "HasAlphabetic" THEN hasAlphabeticDescribe(d)
                      ELSE appendDescription(d, Fragment(rules[i])))

\* The longest sequence of Describe calls made on one property.
MaxDescribes == 3

\* A property whose description is empty or holds a text, and the rules
\* whose Describe is called on it, in order.
DescribeInputs ==
    {[first |-> d, rules |-> rs] :
        d \in {<<>>, <<"prefix">>},
        rs \in SeqsUpTo(DescribingRules, MaxDescribes) \ {<<>>}}

DescribeReturns(c, d) == Returns(c, NoErr, <<>>, NoVal, [kind |-> "property", desc |-> d])

CallDescribe(in) ==
    /\ call = Idle
    /\ DescribeReturns([op |-> "Describe", first |-> in.first, rules |-> in.rules],
                       describeEach(in.rules, 1, in.first))

Return ==
    /\ call # Idle
    /\ call' = Idle
    /\ ret' = NoErr
    /\ dst' = NoVal
    /\ log' = <<>>
    /\ doc' = NoDoc
    /\ UNCHANGED frames

\* An entry point is called when no call is in progress.  The guard stands
\* ahead of the choice of the inputs, so that they are drawn only then.
Next ==
    \/ call = Idle /\ \E in \in ValidateInputs : \E ord \in OrdersFor(in.type) :
          Validate(in, ord)
    \/ call = Idle /\ \E in \in ValidateInputs : \E ord \in OrdersFor(in.type) :
          ValidateCtx("strict", in, ord)
    \/ call = Idle /\ \E ctx \in Ctxs, in \in DecodeInputs : \E ord \in OrdersFor(in.type) :
          UnmarshalAndValidateCtx(ctx, in.type, in.raw, ord)
    \/ call = Idle /\ \E ctx \in Ctxs, in \in DecodeInputs : \E ord \in OrdersFor(in.type) :
          DecodeAndValidateContext(ctx, in.type, in.raw, ord)
    \/ call = Idle /\ \E in \in SchemaInputs : NewRequest(in.type, in.po)
    \/ call = Idle /\ \E in \in MissingInputs : CallMissingRules(in)
    \/ call = Idle /\ \E in \in RuleInputs : CallRuleValidate(in)
    \/ call = Idle /\ \E in \in DescribeInputs : CallDescribe(in)
    \/ Return

Spec == Init /\ [][Next]_vars

(***************************************************************************)
(* Concurrent callers.  Goroutines call the entry points on values of      *)
(* their own; a call advances one loop iteration at a time and the steps   *)
(* of different goroutines interleave.  Here call, ret, dst, log and doc   *)
(* hold, for every goroutine, what they hold for the single caller above,  *)
(* and frames holds the local variables of each goroutine's running call.  *)
(* The package has no variable that a call writes: its package-level       *)
(* variables (Required, NotNil, Nil, Empty, the regexps) are only read.    *)
(***************************************************************************)
Threads == {1, 2}

\* The order in which a map iteration of these calls produces the keys.
ConcOrder == <<"k1", "k2">>

\* One frame for the calls of every goroutine, as if their local variables
\* were variables of the package: what C24 rules out.
LocalShared(k) == 1

\* The frame in which goroutine k's call keeps its local variables: its own.
Local(k) == k

\* pc: the next iteration of the call's loop; fields: the converted binding
\* list; errs: the errors collected; err: the error that ended the loop.
Frame(fields) == [pc |-> 1, fields |-> fields, errs |-> NoErrors, err |-> NoErr]

ConcTargets == {[type |-> "*normStop", val |-> v] : v \in Values(Type("*normStop"))}
ConcSchemas == {[type |-> "User", po |-> po] : po \in Perms(PropKeys(Type("User")))}

Running(k) == call[k].op # "idle" /\ call[k].state = "running"

\* Has another goroutine's call been in progress during a step of k's?
Overlaps(k) == call[k].mixed \/ \E j \in Threads \ {k} : Running(j)

Begins(k, op, in, fields, target, lg) ==
    /\ call[k] = Idle
    /\ call' = [call EXCEPT ![k] = [op |-> op, in |-> in, state |-> "running",
                                    mixed |-> FALSE]]
    /\ frames' = [frames EXCEPT ![Local(k)] = Frame(fields)]
    /\ dst' = [dst EXCEPT ![k] = target]
    /\ log' = [log EXCEPT ![k] = lg]
    /\ UNCHANGED <<ret, doc>>

Ends(k, err, lg, schema) ==
    /\ call' = [call EXCEPT ![k].state = "done", ![k].mixed = Overlaps(k)]
    /\ ret' = [ret EXCEPT ![k] = err]
    /\ log' = [log EXCEPT ![k] = lg]
    /\ doc' = [doc EXCEPT ![k] = schema]
    /\ UNCHANGED <<dst, frames>>

\* Validate(in.val) up to the loop of ValidateStruct: the nil test, the
\* declarator and convertFieldRules.
BeginValidate(k, in) ==
    IF in.val = NilPtr THEN Begins(k, "Validate", in, <<>>, in.val, <<>>)
    ELSE LET t    == Elem(Type(in.type))
             base == Addr(SelfObj, 0)
             conv == Call("convertFieldRules", <<"bg", t, in.val[1], base,
                                                  Rules(t, base, "bg"),
                                                  <<Ev("Rules", t.name)>> >>)
         IN  Begins(k, "Validate", in, conv.fields, in.val, conv.log)

\* One iteration of the loop of ValidateStruct: the rules of one binding.
FieldStep(k) ==
    /\ Running(k)
    /\ call[k].op = "Validate"
    /\ call[k].in.val # NilPtr
    /\ frames[Local(k)].err = NoErr
    /\ frames[Local(k)].pc <= Len(frames[Local(k)].fields)
    /\ LET f  == frames[Local(k)]
           t  == Elem(Type(call[k].in.type))
           v  == call[k].in.val[1]
           fr == f.fields[f.pc]
           ft == Call("findStructField", <<t, v, Addr(SelfObj, 0), fr>>)
       IN  IF ~fr.isPtr \/ ~ft.found
           THEN /\ frames' = [frames EXCEPT ![Local(k)].err = Internal("field not found")]
                /\ UNCHANGED log
           ELSE LET r == Call("ozzoValidate", <<"bg", ConcOrder, fr.type, ValAt(v, ft.path),
                                                fr.rules, 1, log[k]>>)
                IN  /\ log' = [log EXCEPT ![k] = r.log]
                    /\ frames' = [frames EXCEPT ![Local(k)] =
                          [f EXCEPT !.pc = @ + 1,
                                    !.err = IF r.err.kind = "internal" THEN r.err ELSE NoErr,
                                    !.errs = CASE r.err.kind \in {"nil", "internal"} -> @
                                               [] ft.sf.anon /\ r.err.kind = "errors" ->
                                                      Merge(@, r.err.m)
                                               [] OTHER -> Put(@, ErrorFieldName(ft.sf), r.err)]]
    /\ call' = [call EXCEPT ![k].mixed = Overlaps(k)]
    /\ UNCHANGED <<ret, dst, doc>>

\* The loop of ValidateStruct is over: the collected errors, or nil.
FinishValidate(k) ==
    /\ Running(k)
    /\ call[k].op = "Validate"
    /\ LET f == frames[Local(k)]
       IN  /\ f.err # NoErr \/ f.pc > Len(f.fields)
           /\ Ends(k, IF f.err # NoErr THEN f.err
                      ELSE IF DOMAIN f.errs # {} THEN Errors(f.errs) ELSE NoErr,
                    log[k], NoDoc)

\* normalizeRecursive(ctx, in.val) up to the loop of walkNormalize: the
\* top-level hook.
BeginNormalize(k, in) ==
    IF in.val = NilPtr THEN Begins(k, "Normalize", in, <<>>, in.val, <<>>)
    ELSE LET c == Call("callNormalize", <<"bg", Elem(Type(in.type)), in.val[1], <<>>, <<>> >>)
         IN  Begins(k, "Normalize", in, <<>>, PtrTo(c.val), c.log)

\* One iteration of the loop of walkNormalize: one field of the target.
WalkStep(k) ==
    /\ Running(k)
    /\ call[k].op = "Normalize"
    /\ dst[k] # NilPtr
    /\ frames[Local(k)].err = NoErr
    /\ frames[Local(k)].pc <= NumField(Elem(Type(call[k].in.type)))
    /\ LET t  == Elem(Type(call[k].in.type))
           i  == frames[Local(k)].pc
           v  == dst[k][1]
           ft == Fields(t)[i].type
           p  == <<Fields(t)[i].name>>
           o  == ConcOrder
           e  == CASE ~IsExported(Fields(t)[i]) /\ ReadsThroughUnexported(ft, v[i]) ->
                        N(v[i], Append(log[k], Ev("panic", Fields(t)[i].name)))
                   [] Kind(ft) = "struct" -> Call("walkStruct", <<"bg", o, ft, v[i], p, log[k]>>)
                   [] Kind(ft) = "ptr"    -> Call("walkPtr", <<"bg", o, ft, v[i], p, log[k]>>)
                   [] Kind(ft) = "slice"  -> Call("walkSlice", <<"bg", o, ft, v[i], 1, p, log[k]>>)
                   [] Kind(ft) = "map"    -> Call("walkMap", <<"bg", o, ft, v[i], 1, p, log[k]>>)
                   [] OTHER               -> N(v[i], log[k])
       IN  /\ dst' = [dst EXCEPT ![k] = PtrTo([v EXCEPT ![i] = e.val])]
           /\ log' = [log EXCEPT ![k] = e.log]
           /\ frames' = [frames EXCEPT ![Local(k)].pc = @ + 1,
                                       ![Local(k)].err = IF Panicked(e.log) THEN Panic ELSE NoErr]
    /\ call' = [call EXCEPT ![k].mixed = Overlaps(k)]
    /\ UNCHANGED <<ret, doc>>

FinishNormalize(k) ==
    /\ Running(k)
    /\ call[k].op = "Normalize"
    /\ LET f == frames[Local(k)]
       IN  /\ \/ dst[k] = NilPtr
              \/ f.err # NoErr
              \/ f.pc > NumField(Elem(Type(call[k].in.type)))
           /\ Ends(k, f.err, log[k], NoDoc)

\* NewRequest(v): the generator is created.
BeginSchema(k, in) == Begins(k, "NewRequest", in, <<>>, NoVal, <<>>)

\* The generator, which is the call's own, builds the schema.
Generate(k) ==
    /\ Running(k)
    /\ call[k].op = "NewRequest"
    /\ LET g == NewSchemaRefForValue(call[k].in.po, Type(call[k].in.type))
       IN  Ends(k, g.err, g.log, IF g.err = NoErr THEN g.schema ELSE NoDoc)

ConcInit ==
    /\ call = [k \in Threads |-> Idle]
    /\ ret = [k \in Threads |-> NoErr]
    /\ dst = [k \in Threads |-> NoVal]
    /\ log = [k \in Threads |-> <<>>]
    /\ doc = [k \in Threads |-> NoDoc]
    /\ frames = [k \in Threads |-> Frame(<<>>)]

ConcNext ==
    \/ \E k \in Threads, in \in ConcTargets : BeginValidate(k, in)
    \/ \E k \in Threads : FieldStep(k)
    \/ \E k \in Threads : FinishValidate(k)
    \/ \E k \in Threads, in \in ConcTargets : BeginNormalize(k, in)
    \/ \E k \in Threads : WalkStep(k)
    \/ \E k \in Threads : FinishNormalize(k)
    \/ \E k \in Threads, in \in ConcSchemas : BeginSchema(k, in)
    \/ \E k \in Threads : Generate(k)

ConcSpec == ConcInit /\ [][ConcNext]_vars

(***************************************************************************)
(* What a value's validity is, said without the traversal: the bound       *)
(* fields some rule rejects.                                               *)
(***************************************************************************)
Rejects(rules, t, v) == \E i \in 1..Len(rules) : RuleValidate(rules[i], t, v) # NoErr

RECURSIVE Invalid(_, _, _)
RECURSIVE InvalidTags(_, _, _)
\* The tags of the invalid bound fields of the struct value v of type t, the
\* fields an embedded part contributes included.
InvalidTags(t, v, ctx) ==
    LET bs == RulesOf(t.name, IF t.ruler = "ContextRuler" THEN ctx ELSE "bg")
        tags(b) ==
            LET sf == Fields(t)[b.path[1]]
                fv == v[b.path[1]]
            IN  IF sf.anon /\ PtrImplementsRuler(sf.type)
                THEN InvalidTags(sf.type, fv, ctx)
                ELSE IF Rejects(b.rules, sf.type, fv) THEN {ErrorFieldName(sf)}
                ELSE IF sf.anon /\ ImplementsRuler(sf.type)
                THEN IF fv = NilPtr THEN {} ELSE InvalidTags(Elem(sf.type), fv[1], ctx)
                ELSE IF Invalid(sf.type, fv, ctx) THEN {ErrorFieldName(sf)} ELSE {}
    IN  UNION {tags(bs[i]) : i \in 1..Len(bs)}

\* Is the value v of type t invalid?
Invalid(t, v, ctx) ==
    CASE Kind(t) = "ptr"    -> v # NilPtr /\ Invalid(Elem(t), v[1], ctx)
      [] Kind(t) = "struct" -> PtrImplementsRuler(t) /\ InvalidTags(t, v, ctx) # {}
      [] Kind(t) = "slice"  ->
            shouldAutoValidate(Elem(t)) /\ \E i \in 1..Len(v) : Invalid(Elem(t), v[i], ctx)
      [] Kind(t) = "map"    ->
            shouldAutoValidate(Elem(t)) /\ \E k \in DOMAIN v : Invalid(Elem(t), v[k], ctx)
      [] OTHER              -> Rejects(t.vrules, t, v)

\* The struct type and struct value a call's argument denotes.
ArgType == IF Kind(Type(call.type)) = "ptr" THEN Elem(Type(call.type)) ELSE Type(call.type)
ArgVal == IF Kind(Type(call.type)) = "ptr" THEN call.val[1] ELSE call.val
ArgNil == Kind(Type(call.type)) = "ptr" /\ call.val = NilPtr

\* The containers all of whose bindings resolve.
SoundContainers ==
    {"*valWithEmbed", "*valDeep", "*valPtrEmbed", "*valCtxChild", "*valTypedParent", "valWithEmbed"}

\* C1: Validate on a container returns no error when no bound field is
\* invalid, and otherwise an aggregated error whose key set is exactly the
\* set of the tags (json name, else Go name) of the invalid bound fields, so
\* that sibling invalid fields are all reported.
C1_KeySetIsInvalidTags ==
    (call.op = "Validate" /\ call.type \in SoundContainers /\ ~ArgNil) =>
        LET tags == InvalidTags(ArgType, ArgVal, call.ctx)
        IN  IF tags = {} THEN ret = NoErr
            ELSE ret.kind = "errors" /\ DOMAIN ret.m = tags

\* Three sibling fields invalid at once, all reported.
C1_Witness ==
    /\ call.op = "Validate"
    /\ call.type = "*valTypedParent"
    /\ ret.kind = "errors"
    /\ DOMAIN ret.m = {"Title", "children", "method"}

(***************************************************************************)
(* Embedded sub-containers.                                                *)
(***************************************************************************)
EmbedContainers == {"*valWithEmbed", "*valDeep", "*valPtrEmbed", "valWithEmbed"}

RECURSIVE EmbeddedNames(_)
\* The names of the embedded fields of t, at every depth.
EmbeddedNames(t) ==
    UNION {LET sf == Fields(t)[i]
               st == IF Kind(sf.type) = "ptr" THEN Elem(sf.type) ELSE sf.type
           IN  IF sf.anon THEN {sf.name} \cup EmbeddedNames(st) ELSE {} :
           i \in 1..NumField(t)}

\* The tags of the invalid fields inside the embedded parts of v that are
\* present and that the rules bound to the embedded field itself accept.
EmbeddedInvalidTags(t, v, ctx) ==
    LET bs == RulesOf(t.name, IF t.ruler = "ContextRuler" THEN ctx ELSE "bg")
        tags(b) ==
            LET sf == Fields(t)[b.path[1]]
                fv == v[b.path[1]]
            IN  IF sf.anon /\ PtrImplementsRuler(sf.type)
                THEN InvalidTags(sf.type, fv, ctx)
                ELSE IF sf.anon /\ ImplementsRuler(sf.type) /\ fv # NilPtr
                        /\ ~Rejects(b.rules, sf.type, fv)
                THEN InvalidTags(Elem(sf.type), fv[1], ctx)
                ELSE {}
    IN  UNION {tags(bs[i]) : i \in 1..Len(bs)}

\* The embedded fields of t that a rule bound to them rejects.
RejectedEmbedded(t, v, ctx) ==
    LET bs == RulesOf(t.name, IF t.ruler = "ContextRuler" THEN ctx ELSE "bg")
    IN  {Fields(t)[bs[i].path[1]].name : i \in
            {j \in 1..Len(bs) :
                /\ Fields(t)[bs[j].path[1]].anon
                /\ ~PtrImplementsRuler(Fields(t)[bs[j].path[1]].type)
                /\ Rejects(bs[j].rules, Fields(t)[bs[j].path[1]].type, v[bs[j].path[1]])}}

ChildCollections ==
    {"*[]valCtxChild", "[]valCtxChild", "*map[string]valCtxChild", "*map[string][]valCtxChild"}

RECURSIVE ExpectedErr(_, _, _, _)
\* The error of a collection said element by element: one key per invalid
\* element, holding the error Validate returns for that element alone.
ExpectedErr(t, v, ctx, ord) ==
    CASE Kind(t) = "slice" ->
            LET bad == {i \in 1..Len(v) : ExpectedErr(Elem(t), v[i], ctx, ord) # NoErr}
                at(k) == CHOOSE i \in bad : Itoa(i - 1) = k
            IN  IF bad = {} THEN NoErr
                ELSE Errors([k \in {Itoa(i - 1) : i \in bad} |->
                                ExpectedErr(Elem(t), v[at(k)], ctx, ord)])
      [] Kind(t) = "map" ->
            LET bad == {k \in DOMAIN v : ExpectedErr(Elem(t), v[k], ctx, ord) # NoErr}
            IN  IF bad = {} THEN NoErr
                ELSE Errors([k \in bad |-> ExpectedErr(Elem(t), v[k], ctx, ord)])
      [] OTHER -> Call("validateCore", <<ctx, ord, t, v, <<>> >>).err

\* C3: the error of a walked collection has one key for every invalid
\* element and none for a valid one, the decimal index in a slice and the
\* map key in a map, holding that element's own error; nested collections
\* nest in the same way.
C3_ElementKeys ==
    (call.op = "Validate" /\ call.type \in ChildCollections /\ ~ArgNil) =>
        ret = ExpectedErr(ArgType, ArgVal, call.ctx, call.ord)

\* A map of slices with an invalid second element under one key and only
\* valid elements under the other.
C3_Witness ==
    /\ call.op = "Validate"
    /\ call.type = "*map[string][]valCtxChild"
    /\ ~ArgNil
    /\ DOMAIN ArgVal = {"k1", "k2"}
    /\ ret.kind = "errors"
    /\ DOMAIN ret.m = {"k1"}
    /\ DOMAIN ret.m["k1"].m = {"1"}
    /\ Len(ArgVal["k2"]) = 2

(***************************************************************************)
(* Binding configuration errors.                                           *)
(***************************************************************************)
RECURSIVE StoresInternal(_)
\* Does an aggregated error hold a configuration error under some key?
StoresInternal(e) ==
    /\ e.kind = "errors"
    /\ \E k \in DOMAIN e.m : e.m[k].kind = "internal" \/ StoresInternal(e.m[k])

RECURSIVE Misbound(_, _)
\* Does validating the value v of type t reach a container one of whose
\* bindings does not resolve?
Misbound(t, v) ==
    CASE Kind(t) = "ptr"    -> v # NilPtr /\ Misbound(Elem(t), v[1])
      [] Kind(t) = "slice"  -> \E i \in 1..Len(v) : Misbound(Elem(t), v[i])
      [] Kind(t) = "map"    -> \E k \in DOMAIN v : Misbound(Elem(t), v[k])
      [] Kind(t) = "struct" ->
            \/ t.name \in {"valBroken", "valNilBound"}
            \/ \E i \in 1..NumField(t) : Misbound(Fields(t)[i].type, v[i])
      [] OTHER -> FALSE

\* C8 as stated: a binding configuration error raised anywhere during a
\* Validate call, a container reached through a slice or map element
\* included, is what the call returns, and it is never stored under a key of
\* an aggregated error.
C8_ConfigErrorAborts ==
    call.op = "Validate" =>
        /\ ~StoresInternal(ret)
        /\ Misbound(Type(call.type), call.val) => ret.kind = "internal"

(***************************************************************************)
(* The decoding entry points.                                              *)
(***************************************************************************)
DecodeOps == {"UnmarshalAndValidate", "DecodeAndValidate"}

\* The hook invocations of the call, in order.
Hooks == SelectSeq(log, LAMBDA e : e.ev = "Normalize")

RECURSIVE LowerAll(_, _)
\* The value v of type t with every string lower-cased, which is what the
\* hooks of the universe make of a value each of whose parts has one.
LowerAll(t, v) ==
    CASE Kind(t) = "string" -> Lower(v)
      [] Kind(t) = "ptr"    -> IF v = NilPtr THEN v ELSE PtrTo(LowerAll(Elem(t), v[1]))
      [] Kind(t) = "struct" -> [i \in 1..NumField(t) |-> LowerAll(Fields(t)[i].type, v[i])]
      [] Kind(t) = "slice"  -> [i \in 1..Len(v) |-> LowerAll(Elem(t), v[i])]
      [] Kind(t) = "map"    -> [k \in DOMAIN v |-> LowerAll(Elem(t), v[k])]

RECURSIVE HookPlaces(_, _, _)
\* The places under the value v of type t, itself at place p, that hold a
\* value with a normalization hook.
HookPlaces(t, v, p) ==
    CASE Kind(t) = "ptr"    -> IF v = NilPtr THEN {} ELSE HookPlaces(Elem(t), v[1], p)
      [] Kind(t) = "struct" ->
            (IF t.norm # "none" THEN {p} ELSE {})
            \cup UNION {HookPlaces(Fields(t)[i].type, v[i], Append(p, Fields(t)[i].name)) :
                          i \in 1..NumField(t)}
      [] Kind(t) = "slice"  ->
            UNION {HookPlaces(Elem(t), v[i], Append(p, Itoa(i - 1))) : i \in 1..Len(v)}
      [] Kind(t) = "map"    ->
            UNION {HookPlaces(Elem(t), v[k], Append(p, k)) : k \in DOMAIN v}
      [] OTHER -> {}

\* The places whose hook the call invoked.
Normalized == {Hooks[i].path : i \in 1..Len(Hooks)}

\* What the decoder alone makes of the call's bytes.
Decoded ==
    PtrTo(Unmarshal(Elem(Type(call.type)), call.raw.json, Zero(Elem(Type(call.type)))).val)

\* The targets each of whose struct values has a hook.
HookedTargets == {"*normRoute", "*[]normStop"}

\* C5: in the decoding entry points every normalization hook of the pass
\* runs before the first rule is evaluated, and where every struct value of
\* the target has a hook and the pass has invoked them all, every rule sees
\* a normalized value and the target holds the normalized value when the
\* call returns.
C5_NormalizeBeforeValidate ==
    (call.op \in DecodeOps /\ ret.kind # "decode") =>
        /\ \A i, j \in 1..Len(log) :
              (i < j /\ log[i].ev = "rule") => log[j].ev # "Normalize"
        /\ (/\ call.type \in HookedTargets
            /\ Normalized = HookPlaces(Type(call.type), dst, <<>>)) =>
              /\ \A i \in 1..Len(log) :
                    log[i].ev = "rule" => log[i].val = Lower(log[i].val)
              /\ dst = LowerAll(Type(call.type), Decoded)

\* A document with upper-case strings at two depths that validates once they
\* are lower-cased.
C5_Witness ==
    /\ call.op = "UnmarshalAndValidate"
    /\ call.type = "*normRoute"
    /\ ret = NoErr
    /\ Decoded[1][1] = "ACH"
    /\ Len(Decoded[1][2]) = 1
    /\ Decoded[1][2][1][1] = "ACH"
    /\ dst[1][1] = "ach"
    /\ \E i \in 1..Len(log) : log[i].ev = "rule"

IsPrefix(p, q) == Len(p) <= Len(q) /\ SubSeq(q, 1, Len(p)) = p

RECURSIVE PreOrder(_, _)
\* The places of the values with a hook under a normRoute with n addresses,
\* parent first and depth first: the order itself, each address, its Geo.
PreOrder(i, n) ==
    IF i > n THEN <<>>
    ELSE <<<<"Addresses", Itoa(i - 1)>>, <<"Addresses", Itoa(i - 1), "Geo">>>>
         \o PreOrder(i + 1, n)

\* C6: the top-level hook runs first, the hook of a value runs before the
\* hook of any value nested in it, and the nested values are visited depth
\* first in field and element order.
C6_ParentBeforeChildren ==
    (call.op \in DecodeOps /\ ret.kind # "decode") =>
        /\ \A i, j \in 1..Len(Hooks) :
              (i < j) => ~(IsPrefix(Hooks[j].path, Hooks[i].path))
        /\ call.type = "*normRoute" =>
              [i \in 1..Len(Hooks) |-> Hooks[i].path]
                  = <<<<>>>> \o PreOrder(1, Len(dst[1][2]))

\* Two addresses, each with its nested value: five hooks.
C6_Witness ==
    /\ call.op = "DecodeAndValidate"
    /\ call.type = "*normRoute"
    /\ ret.kind # "decode"
    /\ Len(Hooks) = 5
    /\ Hooks[3].path = <<"Addresses", "0", "Geo">>

\* The bytes the decoder rejects: no JSON, or a document that does not fit.
FailsToDecode(raw) == ~raw.valid \/ raw.json \in MisfitsOf(call.type)

\* C7: when decoding fails the entry points return the decoder's error and
\* invoke no normalization hook and no rule.
C7_DecodeErrorStops ==
    (call.op \in DecodeOps /\ FailsToDecode(call.raw)) =>
        /\ ret = DecodeErr
        /\ log = <<>>
        /\ dst = IF call.raw.valid THEN Decoded ELSE PtrTo(Zero(Elem(Type(call.type))))

\* A document whose first member was decoded before the second failed: the
\* target keeps the raw string.
C7_Witness ==
    /\ call.op = "UnmarshalAndValidate"
    /\ call.type = "*normRoute"
    /\ call.raw.valid
    /\ call.raw.json \in Misfits
    /\ ret = DecodeErr
    /\ dst[1][1] = "ACH"

(***************************************************************************)
(* Schema generation.                                                      *)
(***************************************************************************)
\* The type a schema call's argument denotes, pointers followed.
DocType == IndirectType(Type(call.type))

Range(q) == {q[i] : i \in 1..Len(q)}

\* The bindings of a fresh instance of the struct type t after expansion,
\* each with the field it resolves to.
BoundFields(t) ==
    LET base == Addr(SelfObj, 0)
        ex   == Call("expandFields",
                     <<"bg", t, Zero(t), base, Rules(t, base, "bg"), <<>> >>).fields
    IN  {[rules |-> ex[i].rules, f |-> findStructField(t, Zero(t), base, ex[i])] :
            i \in 1..Len(ex)}

\* C4 as stated: for every bound field of a Ruler struct the property its
\* rules decorate has the key under which Validate reports the field (json
\* name, else Go name) and every rule bound to the field is described on
\* it, with or without a json tag and for the fields an embedded part
\* contributes.
C4_PropertyKeyIsValidationKey ==
    (call.op = "NewRequest" /\ ret = NoErr /\ PtrImplementsRuler(DocType)) =>
        \A b \in BoundFields(DocType) :
            (b.f.found /\ ~b.f.sf.anon) =>
                LET k == ErrorFieldName(b.f.sf)
                IN  /\ k \in DOMAIN doc.props
                    /\ "Required" \in Range(b.rules) => k \in Range(doc.required)
                    /\ "In" \in Range(b.rules) => doc.props[k].enum = InValues
                    /\ "Describe" \in Range(b.rules) => doc.props[k].desc # ""

RECURSIVE GeneratedTypes(_)
\* The struct types the generator builds a schema for when asked for t: t
\* and the types of the fields that become properties.
GeneratedTypes(t) ==
    CASE Kind(t) \in {"ptr", "slice", "map"} -> GeneratedTypes(Elem(t))
      [] Kind(t) = "struct" ->
            LET fs == AppendFields(t, 1)
            IN  {t} \cup UNION {GeneratedTypes(fs[i].type) :
                                  i \in {j \in 1..Len(fs) : fs[j].hasTag}}
      [] OTHER -> {}

RECURSIVE Bindings(_)
\* The bindings a declarator type's Rules return, those of the embedded
\* declarators it expands included, as they are written.
Bindings(t) ==
    LET bs == RulesOf(t.name, "bg")
    IN  UNION {LET sf == Fields(t)[bs[i].path[1]]
               IN  IF bs[i].rel = "self" /\ sf.anon /\ PtrImplementsRuler(sf.type)
                   THEN Bindings(sf.type)
                   ELSE {bs[i]} :
               i \in 1..Len(bs)}

\* C9: schema generation returns an error, and no schema, when a binding of
\* a struct type it generates is not a pointer to a field of the fresh
\* instance, and only then: no such binding is passed over.
C9_UnresolvedBindingIsAnError ==
    call.op = "NewRequest" =>
        LET bad == \E g \in GeneratedTypes(Type(call.type)) :
                       \E b \in Bindings(g) : b.rel # "self"
        IN  /\ bad => (ret.kind = "schema" /\ doc = NoDoc)
            /\ ~bad => (ret = NoErr /\ doc # NoDoc)

\* The misbound type is reached through a property of the type asked for.
C9_Witness ==
    /\ call.op = "NewRequest"
    /\ call.type = "valHolder"
    /\ ret.kind = "schema"

\* C10: a bound field whose type carries its own rules has them applied by
\* Validate to its value and by schema generation to its property, though
\* the binding lists none of them: a value outside the allowed set is
\* rejected and the property's enum is the allowed set.
C10_ValueRulesApplied ==
    /\ RulesOf("valTypedParent", "bg")[3].rules = <<"Required">>
    /\ (call.op = "Validate" /\ call.type = "*valTypedParent" /\ ~ArgNil) =>
          LET m == ArgVal[3]
          IN  /\ (m # "") <=> (\E i \in 1..Len(log) : log[i] = EvRule("InPM", m))
              /\ (m # "" /\ m \notin InValues) <=>
                    /\ ret.kind = "errors"
                    /\ "method" \in DOMAIN ret.m
                    /\ ret.m["method"] = Leaf("must be one of")
    /\ (call.op = "NewRequest" /\ DocType.name = "valTypedParent") =>
          /\ ret = NoErr
          /\ doc.props["method"].enum = InValues

\* Only the field's own type rejects the value.
C10_Witness ==
    /\ call.op = "Validate"
    /\ call.type = "*valTypedParent"
    /\ ~ArgNil
    /\ ArgVal[3] = "ACH"
    /\ ret.kind = "errors"
    /\ DOMAIN ret.m = {"method"}

(***************************************************************************)
(* Collections of elements that declare rules.                             *)
(***************************************************************************)
RECURSIVE ElementsDeclare(_)
\* Does the element type t, through nested collections, implement Ruler or
\* ContextRuler (on its pointer) or ValueRuler?
ElementsDeclare(t) ==
    CASE Kind(t) \in {"slice", "map"} -> ElementsDeclare(Elem(t))
      [] Kind(t) = "struct"           -> PtrImplementsRuler(t)
      [] Kind(t) = "string"           -> t.vrules # <<>>
      [] OTHER                        -> FALSE

\* C11 as stated: Validate on a slice or map whose element type, through
\* nested collections, implements Ruler / ContextRuler or ValueRuler
\* validates every element and reports each invalid one under its index or
\* key.
C11_EitherCapabilityElements ==
    (/\ call.op = "Validate"
     /\ ~ArgNil
     /\ Kind(ArgType) \in {"slice", "map"}
     /\ ElementsDeclare(Elem(ArgType))) =>
        ret = ExpectedErr(ArgType, ArgVal, call.ctx, call.ord)

\* The elements a collection holds, pointers followed, nil pointers left out.
RECURSIVE Elements(_, _)
Elements(t, v) ==
    CASE Kind(t) = "slice" -> UNION {Elements(Elem(t), v[i]) : i \in 1..Len(v)}
      [] Kind(t) = "map"   -> UNION {Elements(Elem(t), v[k]) : k \in DOMAIN v}
      [] Kind(t) = "ptr"   -> IF v = NilPtr THEN {} ELSE Elements(Elem(t), v[1])
      [] OTHER             -> {[type |-> t, val |-> v]}

\* Does some non-nil element of the collection violate its own Rules?
SomeElementInvalid(t, v, ctx) ==
    \E e \in Elements(t, v) :
        PtrImplementsRuler(e.type) /\ InvalidTags(e.type, e.val, ctx) # {}

\* C12 as stated: a collection of Ruler elements, a slice of pointers to
\* them included, yields an error when a non-nil element violates its own
\* Rules, passed to Validate directly or held by a bound field of a parent
\* Ruler.
C12_PointerElementsValidated ==
    /\ (/\ call.op = "Validate"
        /\ ~ArgNil
        /\ call.type \in ChildCollections \cup {"[]*valCtxChild"}) =>
           (ret # NoErr <=> SomeElementInvalid(ArgType, ArgVal, call.ctx))
    /\ (call.op = "Validate" /\ call.type = "*valPtrParent" /\ ~ArgNil) =>
           (ret # NoErr <=> SomeElementInvalid(Type("[]*valCtxChild"), ArgVal[1], call.ctx))

(***************************************************************************)
(* Struct values whose pointer type is the declarator.                     *)
(***************************************************************************)
\* What Validate returns for a pointer to the value v of type t.
ViaPointer(t, v, ctx, ord) ==
    LET pt == [name |-> "*" \o t.name, kind |-> "ptr", elem |-> t, fields |-> NoFields,
               ruler |-> "none", vrules |-> <<>>, norm |-> "none"]
    IN  Call("validateCore", <<ctx, ord, pt, PtrTo(v), <<>> >>).err

\* C13: a struct handed in by value, as the argument of Validate, as a map
\* value or as a field value, whose pointer type alone declares rules is
\* validated against them: it is rejected exactly when one of its bound
\* fields is invalid, with the error that validating a pointer to it gives.
C13_ValueReceiverStyle ==
    /\ (call.op = "Validate" /\ call.type = "valWithEmbed") =>
          /\ ret = ViaPointer(ArgType, ArgVal, call.ctx, call.ord)
          /\ ret # NoErr <=> InvalidTags(ArgType, ArgVal, call.ctx) # {}
    /\ (call.op = "Validate" /\ call.type = "*map[string]valCtxChild" /\ ~ArgNil) =>
          \A k \in DOMAIN ArgVal :
              LET e == ViaPointer(Type("valCtxChild"), ArgVal[k], call.ctx, call.ord)
              IN  /\ e # NoErr <=> InvalidTags(Type("valCtxChild"), ArgVal[k], call.ctx) # {}
                  /\ IF e = NoErr THEN ret = NoErr \/ k \notin DOMAIN ret.m
                     ELSE ret.kind = "errors" /\ k \in DOMAIN ret.m /\ ret.m[k] = e
    /\ (call.op = "Validate" /\ call.type = "*normStop" /\ ~ArgNil) =>
          LET e == ViaPointer(Type("normGeo"), ArgVal[2], call.ctx, call.ord)
          IN  /\ e # NoErr <=> InvalidTags(Type("normGeo"), ArgVal[2], call.ctx) # {}
              /\ IF e = NoErr THEN ret = NoErr \/ "geo" \notin DOMAIN ret.m
                 ELSE ret.kind = "errors" /\ "geo" \in DOMAIN ret.m /\ ret.m["geo"] = e

\* A struct passed by value with both of its bound fields invalid.
C13_Witness ==
    /\ call.op = "Validate"
    /\ call.type = "valWithEmbed"
    /\ call.val = <<<<"">>, "">>
    /\ ret.kind = "errors"
    /\ DOMAIN ret.m = {"ID", "Value"}

C15_EveryHookInvoked ==
    (call.op \in DecodeOps /\ ret.kind # "decode") =>
        Normalized = HookPlaces(Type(call.type), dst, <<>>)

(***************************************************************************)
(* Schema generation, run again.                                           *)
(***************************************************************************)
\* What a run of NewRequest for the type t leaves as the document when its
\* iterations over property maps produce the keys in the order po.
DocOf(t, po) ==
    LET g == NewSchemaRefForValue(po, Type(t))
    IN  IF g.err = NoErr THEN g.schema ELSE NoDoc

\* C16: generating the schema again for the same type yields the same
\* output, required lists and descriptions included, whatever order the
\* iterations over the property maps take.
C16_SchemaRunsAgree ==
    call.op = "NewRequest" =>
        \A po \in Perms(PropKeys(Type(call.type))) : DocOf(call.type, po) = doc

(***************************************************************************)
(* Describe, applied twice.                                                *)
(***************************************************************************)
\* The rules of the universe.
DescribedRules == {"Required", "In", "InPM", "Describe"}

\* C17: for every rule, Describe invoked twice in succession with the same
\* property name on the same schema leaves the schema as a single
\* invocation leaves it.
C17_DescribeIdempotent ==
    (call.op = "NewRequest" /\ doc # NoDoc) =>
        \A rule \in DescribedRules : \A name \in DOMAIN doc.props :
            Describe(rule, name, Describe(rule, name, doc)) = Describe(rule, name, doc)

(***************************************************************************)
(* MissingRules.                                                           *)
(***************************************************************************)
Inner(sf) == IF Kind(sf.type) = "ptr" THEN Elem(sf.type) ELSE sf.type

RECURSIVE FieldPlaces(_)
\* The index paths of the non-anonymous fields of the struct type t and,
\* recursively, of its embedded structs.
FieldPlaces(t) ==
    UNION {IF Fields(t)[i].anon
           THEN IF Kind(Inner(Fields(t)[i])) = "struct"
                THEN {<<i>> \o p : p \in FieldPlaces(Inner(Fields(t)[i]))}
                ELSE {}
           ELSE {<<i>>} : i \in 1..NumField(t)}

RECURSIVE FieldAt(_, _)
\* The field of t at the index path p, with the struct that declares it.
FieldAt(t, p) ==
    IF Len(p) = 1 THEN [in |-> t, sf |-> Fields(t)[p[1]]]
    ELSE FieldAt(Inner(Fields(t)[p[1]]), Tail(p))

RECURSIVE BoundPlaces(_)
\* The index paths of the fields the expanded rule list of the struct type
\* t binds: the binding of an embedded struct whose address is a declarator
\* stands for the bindings of that declarator.
BoundPlaces(t) ==
    LET bs == RulesOf(t.name, "bg")
        of(b) ==
            LET sf == Fields(t)[b.path[1]]
            IN  IF b.rel # "self" THEN {}
                ELSE IF sf.anon /\ PtrImplementsRuler(sf.type)
                THEN {<<b.path[1]>> \o p : p \in BoundPlaces(sf.type)}
                ELSE {b.path}
    IN  UNION {of(bs[i]) : i \in 1..Len(bs)}

\* The fields MissingRules is to name: those without a binding that are
\* exported and neither tagged out nor excluded.
Uncovered(t, excl) ==
    {p \in FieldPlaces(t) \ BoundPlaces(t) :
        LET f == FieldAt(t, p)
        IN  /\ IsExported(f.sf)
            /\ f.sf.json # "-"
            /\ f.sf.docs # "skip"
            /\ validateTag(f.in, f.sf) # "-"
            /\ fieldKey(f.sf) \notin excl
            /\ f.sf.name \notin excl}

\* C18: MissingRules returns exactly the exported, non-anonymous fields of
\* the struct and of its embedded structs that have no binding in the
\* expanded rule list, by JSON name or else Go name, the fields tagged out
\* and the excluded names left out.
C18_MissingExactlyUnbound ==
    (call.op = "MissingRules" /\ ImplementsRuler(Type(call.type))) =>
        Range(ret.names) =
            {fieldKey(FieldAt(ArgType, p).sf) : p \in Uncovered(ArgType, call.exclude)}

(***************************************************************************)
(* The Unique rule.                                                        *)
(***************************************************************************)
\* The slice a call of a rule was handed, behind the pointer if there is one.
ArgSlice == IF call.type = "*[]string" THEN call.val[1] ELSE call.val

\* C19: for a slice and a key-extraction function, Unique's Validate fails
\* if and only if two distinct indices yield equal keys; it succeeds for an
\* empty slice and for a nil one.
C19_UniqueIffNoDuplicate ==
    (call.op = "Rule.Validate" /\ call.rule = "Unique"
         /\ call.type \in {"[]string", "*[]string"}) =>
        IF call.val = NilPtr THEN ret = NoErr
        ELSE /\ ret # NoErr <=>
                   \E i, j \in 1..Len(ArgSlice) : i # j /\ call.f[i] = call.f[j]
             /\ Len(ArgSlice) = 0 => ret = NoErr

\* Two elements with the same key.
C19_Witness ==
    /\ call.op = "Rule.Validate"
    /\ call.rule = "Unique"
    /\ call.type = "*[]string"
    /\ call.val # NilPtr
    /\ call.f = <<"ach", "ach">>
    /\ ret = Leaf("not unique")

(***************************************************************************)
(* Empty values.                                                           *)
(***************************************************************************)
\* The value a rule was handed is empty: nil, a nil pointer, or the zero
\* value of its type, behind a pointer or not.
EmptyArg ==
    IsNilValue(Type(call.type), call.val) \/ IsEmpty(Type(call.type), call.val)

\* C20: every rule other than the required rule, alone or under a true
\* condition, returns no error on an empty value.
C20_EmptyIsValid ==
    (call.op = "Rule.Validate" /\ call.rule \notin {"Required", "When(true)"} /\ EmptyArg)
        => ret = NoErr

(***************************************************************************)
(* Conditional rules.                                                      *)
(***************************************************************************)
\* Some rule of the list rejects the value the call was handed.
SomeRejects(rules) ==
    \E i \in 1..Len(rules) :
        StandaloneValidate(rules[i], Type(call.type), call.val, <<>>) # NoErr

\* C21: When(condition, desc, rules...).Else(elseRules...) applies rules
\* when the condition is true and elseRules when it is false.
C21_WhenElseApplied ==
    /\ (call.op = "Rule.Validate" /\ call.rule = "When(true)") =>
          (ret # NoErr <=> SomeRejects(WhenRules))
    /\ (call.op = "Rule.Validate" /\ call.rule = "When(false)") =>
          (ret # NoErr <=> SomeRejects(ElseRules))

(***************************************************************************)
(* Skip.                                                                   *)
(***************************************************************************)
\* C22: the rules that follow a Skip rule in a field's list are not
\* evaluated, so the field cannot fail on one of them.
C22_NothingAfterSkip ==
    (call.op = "Validate" /\ call.type = "*valSkipped") =>
        /\ ret = NoErr
        /\ \A i, j \in 1..Len(log) :
              (i < j /\ log[i].ev = "rule" /\ log[i].what = "Skip") => log[j].ev # "rule"

(***************************************************************************)
(* Fields left out of the documentation.                                   *)
(***************************************************************************)
RECURSIVE DocumentedKeys(_)
\* The json names of the fields of the struct type t and of its embedded
\* structs that the generator turns into properties and that are not tagged
\* docs:"skip".
DocumentedKeys(t) ==
    UNION {LET sf == Fields(t)[i]
           IN  IF sf.anon /\ sf.json = "" /\ Kind(Inner(sf)) = "struct"
               THEN DocumentedKeys(Inner(sf))
               ELSE IF sf.json \in {"", "-"} \/ ~IsExported(sf) \/ sf.docs = "skip"
               THEN {}
               ELSE {sf.json} : i \in 1..NumField(t)}

\* C23: the schema generated for a struct type has no property for a field
\* tagged docs:"skip", fields of embedded structs included, and a property
\* for every other field the generator documents.
C23_SkippedFieldsHaveNoProperty ==
    (call.op = "NewRequest" /\ doc # NoDoc /\ Kind(DocType) = "struct") =>
        DOMAIN doc.props = DocumentedKeys(DocType)

(***************************************************************************)
(* The order of a field's rules.                                           *)
(***************************************************************************)
\* Containers whose last binding lists rules of its own.
OrderedContainers == {"*valTypedParent", "*valCtxChild", "*valSkipped", "*normRoute"}

\* The last binding a Validate of one of these containers evaluates, the
\* field it targets and the field's value.
LastBinding ==
    LET bs == RulesOf(Elem(Type(call.type)).name, call.ctx) IN bs[Len(bs)]
LastField == FieldAt(Elem(Type(call.type)), LastBinding.path).sf
LastValue == ValAt(call.val[1], LastBinding.path)

RECURSIVE OwnEvents(_, _, _, _)
\* The invocations of a field's own rules from rule i on, when they run in
\* declared order and end at the first one that rejects.
OwnEvents(rules, i, t, v) ==
    IF i > Len(rules) THEN <<>>
    ELSE <<EvRule(rules[i], v)>> \o
         (IF RuleValidate(rules[i], t, v) # NoErr THEN <<>>
          ELSE OwnEvents(rules, i + 1, t, v))

\* The error of the first of the rules that rejects.
FirstError(rules, t, v) ==
    LET rejecting == {i \in 1..Len(rules) : RuleValidate(rules[i], t, v) # NoErr}
    IN  IF rejecting = {} THEN NoErr
        ELSE RuleValidate(rules[CHOOSE i \in rejecting : \A j \in rejecting : i <= j], t, v)

\* Is e an invocation made by the nested validation of the last field?
IsNested(e) ==
    \/ e.ev = "Rules"
    \/ e.ev = "rule" /\ \E i \in 1..Len(ValueRules(LastField.type)) :
                            e.what = ValueRules(LastField.type)[i]
    \/ e.ev = "rule" /\ Kind(LastField.type) \notin {"string", "int"}

\* C25: the rules bound to a field run in declared order up to the first
\* that rejects, whose error is the one reported for the field, and the
\* nested validation of the field's value runs after them and only when all
\* of them accepted.
C25_OwnRulesThenRecurse ==
    (call.op = "Validate" /\ call.type \in OrderedContainers /\ call.val # NilPtr) =>
        LET rules == LastBinding.rules
            own   == OwnEvents(rules, 1, LastField.type, LastValue)
            first == FirstError(rules, LastField.type, LastValue)
            n     == Len(log)
        IN  IF first # NoErr
            THEN /\ n >= Len(own)
                 /\ SubSeq(log, n - Len(own) + 1, n) = own
                 /\ ret.kind = "errors"
                 /\ ErrorFieldName(LastField) \in DOMAIN ret.m
                 /\ ret.m[ErrorFieldName(LastField)] = first
            ELSE \E j \in 0..n :
                    /\ j + Len(own) <= n
                    /\ SubSeq(log, j + 1, j + Len(own)) = own
                    /\ \A k \in (j + Len(own) + 1)..n : IsNested(log[k])

\* The last field's own rule accepted a value that its nested rules then
\* rejected.
C25_Witness ==
    /\ call.op = "Validate"
    /\ call.type = "*valTypedParent"
    /\ call.val # NilPtr
    /\ LastValue = "ACH"
    /\ ret.kind = "errors"
    /\ "method" \in DOMAIN ret.m
    /\ log[Len(log)] = EvRule("InPM", "ACH")
    /\ log[Len(log) - 1] = EvRule("Required", "ACH")

(***************************************************************************)
(* Normalization and unexported fields.                                    *)
(***************************************************************************)
\* C26: the normalization pass of a decoding entry point completes, whatever
\* the kinds and visibility of the target's fields: the call never ends in
\* a run-time panic.
C26_NormalizeNeverAborts ==
    call.op \in DecodeOps => ret # Panic

(***************************************************************************)
(* Pointer chains that end in nil.                                         *)
(***************************************************************************)
\* C27: Validate of a non-nil pointer whose pointee is a nil pointer returns
\* no error and does not abort, as for a nil value.
C27_NilPointeeIsValid ==
    (/\ call.op = "Validate"
     /\ Kind(Type(call.type)) = "ptr"
     /\ call.val # NilPtr
     /\ Kind(Elem(Type(call.type))) = "ptr"
     /\ call.val[1] = NilPtr) => ret = NoErr

RECURSIVE Joined(_, _, _)
\* The texts of rules[i..] after d, with one space between consecutive
\* texts and none in front of the first.
Joined(rules, i, d) ==
    IF i > Len(rules) THEN d
    ELSE Joined(rules, i + 1,
                (IF d = <<>> THEN d ELSE Append(d, " ")) \o <<Fragment(rules[i])>>)

\* C29: after a sequence of Describe calls on one property its description
\* is the rules' texts in call order, after what was there, with exactly one
\* space between consecutive texts and no space in front; a space after the
\* last text is not counted.
C29_OneSpaceBetweenFragments ==
    call.op = "Describe" =>
        LET d == IF EndsInSpace(doc.desc) THEN SubSeq(doc.desc, 1, Len(doc.desc) - 1)
                 ELSE doc.desc
        IN  d = Joined(call.rules, 1, call.first)

(***************************************************************************)
(* The expanded binding list.                                              *)
(***************************************************************************)
\* Containers with and without embedded declarators, as handed to Validate.
ExpandedContainers == {"*valWithEmbed", "*valDeep", "*valPtrEmbed", "*valTypedParent"}

\* Does the binding b of a declarator of type t target an anonymous field
\* that declares rules?
TargetsEmbeddedDeclarator(t, b) ==
    /\ b.rel = "self"
    /\ Len(b.path) = 1
    /\ Fields(t)[b.path[1]].anon
    /\ Inner(Fields(t)[b.path[1]]).ruler # "none"

RECURSIVE Flattened(_, _, _, _)
\* The bindings bs[i..] of a declarator of type t at address base, each one
\* that targets a declarator embedded by value replaced, where it stands, by
\* the flattened bindings of the embedded value.
Flattened(t, base, ctx, i) ==
    LET bs == RulesOf(t.name, IF t.ruler = "ContextRuler" THEN ctx ELSE "bg")
    IN  IF i > Len(bs) THEN <<>>
        ELSE (IF TargetsEmbeddedDeclarator(t, bs[i]) /\ Kind(Fields(t)[bs[i].path[1]].type) = "struct"
              THEN Flattened(Fields(t)[bs[i].path[1]].type,
                             Addr(base.obj, base.off + FieldOff(t, bs[i].path[1])), ctx, 1)
              ELSE <<Field(t, base, bs[i])>>)
             \o Flattened(t, base, ctx, i + 1)

\* C30: expandFields replaces, at its position, every binding that targets
\* an anonymous embedded field with a declarator by the expanded bindings of
\* the embedded value, and passes every other binding through in order.
C30_EmbeddedBindingsReplaced ==
    (call.op = "Validate" /\ call.type \in ExpandedContainers /\ call.val # NilPtr) =>
        LET t    == Elem(Type(call.type))
            base == Addr(SelfObj, 0)
            bs   == RulesOf(t.name, IF t.ruler = "ContextRuler" THEN call.ctx ELSE "bg")
            got  == expandFields(call.ctx, t, call.val[1], base,
                                 Rules(t, base, call.ctx), <<>>).fields
            byPointer == {i \in 1..Len(bs) :
                            /\ TargetsEmbeddedDeclarator(t, bs[i])
                            /\ Kind(Fields(t)[bs[i].path[1]].type) = "ptr"
                            /\ call.val[1][bs[i].path[1]] # NilPtr}
        IN  /\ \A i \in byPointer : \A k \in 1..Len(got) : got[k] # Field(t, base, bs[i])
            /\ byPointer = {} => got = Flattened(t, base, call.ctx, 1)

(***************************************************************************)
(* Concurrent calls on distinct values.                                    *)
(***************************************************************************)
\* What the call c returns, logs and leaves in its target and its schema
\* when it runs alone.
Alone(c) ==
    CASE c.op = "Validate" ->
            LET r == validateCore("bg", ConcOrder, Type(c.in.type), c.in.val, <<>>)
            IN  [ret |-> r.err, dst |-> c.in.val, log |-> r.log, doc |-> NoDoc]
      [] c.op = "Normalize" ->
            LET n == normalizeRecursive("bg", ConcOrder, Type(c.in.type), c.in.val, <<>>)
            IN  [ret |-> NoErr, dst |-> n.val, log |-> n.log, doc |-> NoDoc]
      [] c.op = "NewRequest" ->
            LET g == NewSchemaRefForValue(c.in.po, Type(c.in.type))
            IN  [ret |-> g.err, dst |-> NoVal, log |-> g.log,
                 doc |-> IF g.err = NoErr THEN g.schema ELSE NoDoc]

====
